---------------------------- MODULE Spec2Model ----------------------------
(***************************************************************************)
(* Access-controlled object-storage gateway: the ACL policy embedded in an *)
(* object's metadata (objectAcl.ts, kept as src/unnamed/part_000) and the  *)
(* S3 object wrapper it reads through (src/server/objectStorage.ts).       *)
(*                                                                         *)
(* Ten specifications share the variables:                                 *)
(*   SpecAuth      the access decision and the permission lattice, applied *)
(*                 to every policy, caller and request of the bounded sets;*)
(*   Spec          the backend store with concurrent setObjectAclPolicy    *)
(*                 and getObjectAclPolicy calls, other writers and faults; *)
(*   SpecStream    createReadStream over every shape of response body,     *)
(*                 with the reader of the stream it returns;               *)
(*   SpecDownload  downloadObject piping that stream to an HTTP response;  *)
(*   SpecPath      parseObjectPath, normalizeObjectEntityPath,             *)
(*                 getObjectEntityFile and trySetObjectEntityAclPolicy;    *)
(*   SpecSign      signObjectURL and getObjectEntityUploadURL against a    *)
(*                 clock;                                                  *)
(*   SpecAccess    canAccessObject on whatever metadata the backend holds, *)
(*                 its HEAD answered or failed;                            *)
(*   SpecUpload    an upload URL issued and used, then the object looked   *)
(*                 up by its entity path or its URL normalized;            *)
(*   SpecInit      invocations of the handler of src/api/index.ts in one   *)
(*                 process;                                                *)
(*   SpecFrame     every operation of the storage service against one      *)
(*                 backend, one download or the others one after another.  *)
(***************************************************************************)
EXTENDS Naturals, Sequences, FiniteSets, TLC

VARIABLES
    store,        \* backend: reference -> object (or no object)
    membership,   \* external group membership: set of <<group id, user id>>
    setCalls,     \* setObjectAclPolicy invocations in progress
    getCalls,     \* getObjectAclPolicy invocations in progress
    envOps,       \* writes by other clients so far
    faults,       \* backend calls failed so far
    lastSet,      \* history: per reference, the last write if it was a completed setPolicy
    authCall,     \* the last canAccessObject evaluation (SpecAuth, SpecAccess)
    permCall,     \* the last isPermissionAllowed evaluation (SpecAuth)
    body,         \* the backend's GetObject response body (SpecStream, SpecDownload)
    rs,           \* the Readable returned by createReadStream
    consumer,     \* what the reader of that stream has observed and done
    res,          \* the HTTP response downloadObject writes to (SpecDownload)
    dl,           \* the downloadObject invocation (SpecDownload)
    pathOp,       \* the path operation evaluated (SpecPath)
    env,          \* process.env: PRIVATE_OBJECT_DIR and R2_BUCKET_NAME
    location,     \* the bucket and key at which the backend holds the object r1
    clock,        \* the time, in seconds (SpecSign)
    uuids,        \* the identifiers randomUUID has returned so far
    issued,       \* the signed URLs returned so far, in order
    signOp,       \* the last call of signObjectURL or getObjectEntityUploadURL
    appInitialized, \* api/index.ts: the module's flag
    app,          \* the Express app: its middleware, and the calls of registerRoutes
    invocation    \* the position of each invocation of the handler (SpecInit)

aclVars == <<store, membership, setCalls, getCalls, envOps, faults, lastSet,
             authCall, permCall>>
streamVars == <<body, rs, consumer>>
downloadVars == <<res, dl>>
signVars == <<clock, uuids, issued, signOp>>
processVars == <<env, appInitialized, app, invocation>>
pathVars == <<pathOp, processVars, location, signVars>>
vars == <<aclVars, streamVars, downloadVars, pathVars>>

(***************************************************************************)
(* Bounds of the model.                                                    *)
(***************************************************************************)
MaxRules == 2
MaxEnvOps == 1
MaxFaults == 1
MaxChunks == 3
MaxSegments == 3
MaxIssued == 2
HighWaterMark == 1

(***************************************************************************)
(* Values.                                                                 *)
(***************************************************************************)
Undefined == "<undefined>"
ACL_POLICY_METADATA_KEY == "custom-acl-policy"

READ == "read"
WRITE == "write"
ObjectPermission == {READ, WRITE}

\* Caller identities. The empty string is a string the caller may pass.
Users == {"u1", "u2", "u3"}
UserIds == Users \cup {"", Undefined}

\* The enum ObjectAccessGroupType has no member: no group type is registered.
ObjectAccessGroupType == {}
\* Type tags a stored rule may carry (they come back from JSON.parse).
GroupTypeTags == {"X"}
GroupIds == {"g1", "g2"}

ObjectAccessGroup == [type : GroupTypeTags, id : GroupIds]
ObjectAclRule == [group : ObjectAccessGroup, permission : ObjectPermission]

RECURSIVE SeqsUpTo(_, _)
SeqsUpTo(S, n) ==
    IF n = 0 THEN {<<>>}
    ELSE LET shorter == SeqsUpTo(S, n - 1)
         IN shorter \cup {Append(s, x) : s \in {t \in shorter : Len(t) = n - 1}, x \in S}

\* aclRules is optional: hasRules = FALSE is the field left undefined.
ObjectAclPolicy ==
    {[owner |-> o, visibility |-> v, hasRules |-> TRUE, aclRules |-> r] :
        o \in Users, v \in {"public", "private"}, r \in SeqsUpTo(ObjectAclRule, MaxRules)}
    \cup
    {[owner |-> o, visibility |-> v, hasRules |-> FALSE, aclRules |-> <<>>] :
        o \in Users, v \in {"public", "private"}}

(***************************************************************************)
(* JSON.stringify / JSON.parse of a policy. A string is a sequence of      *)
(* tokens; parsing reads the tokens back and fails on anything else.       *)
(***************************************************************************)
RuleTokens(rule) ==
    <<"{", "group", "{", "type", rule.group.type, "id", rule.group.id, "}",
      "permission", rule.permission, "}">>

RuleTokenLen ==
    Len(RuleTokens([group |-> [type |-> "", id |-> ""], permission |-> ""]))

RECURSIVE RulesTokens(_)
RulesTokens(rules) ==
    IF rules = <<>> THEN <<>>
    ELSE RuleTokens(Head(rules)) \o RulesTokens(Tail(rules))

\* Mutant: the rules are written last first.
JSONstringify_Reversed(p) ==
    <<"{", "owner", p.owner, "visibility", p.visibility>>
    \o (IF p.hasRules
        THEN <<"aclRules", "[">>
             \o RulesTokens([i \in 1..Len(p.aclRules) |->
                                p.aclRules[Len(p.aclRules) + 1 - i]])
             \o <<"]">>
        ELSE <<>>)
    \o <<"}">>

JSONstringify(p) ==
    <<"{", "owner", p.owner, "visibility", p.visibility>>
    \o (IF p.hasRules THEN <<"aclRules", "[">> \o RulesTokens(p.aclRules) \o <<"]">>
        ELSE <<>>)
    \o <<"}">>

SyntaxError == [ok |-> FALSE, value |-> [kind |-> "null"]]
Parsed(v) == [ok |-> TRUE, value |-> v]
JsNull == [kind |-> "null"]

ParseRule(t) ==
    IF /\ Len(t) = RuleTokenLen
       /\ t[1] = "{" /\ t[2] = "group" /\ t[3] = "{" /\ t[4] = "type"
       /\ t[6] = "id" /\ t[8] = "}" /\ t[9] = "permission" /\ t[11] = "}"
    THEN Parsed([group |-> [type |-> t[5], id |-> t[7]], permission |-> t[10]])
    ELSE SyntaxError

RECURSIVE ParseRules(_)
ParseRules(t) ==
    IF t = <<>> THEN Parsed(<<>>)
    ELSE IF Len(t) < RuleTokenLen THEN SyntaxError
    ELSE LET first == ParseRule(SubSeq(t, 1, RuleTokenLen))
             rest == ParseRules(SubSeq(t, RuleTokenLen + 1, Len(t)))
         IN IF first.ok /\ rest.ok THEN Parsed(<<first.value>> \o rest.value)
            ELSE SyntaxError

JSONparse(t) ==
    IF t = <<"null">> THEN Parsed(JsNull)
    ELSE IF /\ Len(t) >= 6
            /\ t[1] = "{" /\ t[2] = "owner" /\ t[4] = "visibility" /\ t[Len(t)] = "}"
    THEN IF Len(t) = 6
         THEN Parsed([kind |-> "policy", owner |-> t[3], visibility |-> t[5],
                      hasRules |-> FALSE, aclRules |-> <<>>])
         ELSE IF Len(t) >= 9 /\ t[6] = "aclRules" /\ t[7] = "[" /\ t[Len(t) - 1] = "]"
         THEN LET rules == ParseRules(SubSeq(t, 8, Len(t) - 2))
              IN IF rules.ok
                 THEN Parsed([kind |-> "policy", owner |-> t[3], visibility |-> t[5],
                              hasRules |-> TRUE, aclRules |-> rules.value])
                 ELSE SyntaxError
         ELSE SyntaxError
    ELSE SyntaxError

\* The policy value a caller holds, as JSON.parse would hand it back.
AsValue(p) ==
    [kind |-> "policy", owner |-> p.owner, visibility |-> p.visibility,
     hasRules |-> p.hasRules, aclRules |-> p.aclRules]

(***************************************************************************)
(* The access decision.                                                    *)
(***************************************************************************)
Return(b) == [kind |-> "return", value |-> b, error |-> ""]
Throw(e) == [kind |-> "throw", value |-> FALSE, error |-> e]

\* !userId
Falsy(userId) == userId = Undefined \/ userId = ""

\* Mutant: the two arguments taken the other way round.
isPermissionAllowed_Swapped(requested, granted) ==
    IF granted = READ
    THEN requested \in {READ, WRITE}
    ELSE requested = WRITE

isPermissionAllowed(requested, granted) ==
    IF requested = READ
    THEN granted \in {READ, WRITE}
    ELSE granted = WRITE

\* Mutant: an unknown type yields a group instead of an error.
createObjectAccessGroup_NoThrow(group) ==
    [kind |-> "group", group |-> group, error |-> ""]

\* The switch has only its default branch.
createObjectAccessGroup(group) ==
    IF group.type \in ObjectAccessGroupType
    THEN [kind |-> "group", group |-> group, error |-> ""]
    ELSE [kind |-> "throw", group |-> group, error |-> "Unknown access group type"]

\* BaseObjectAccessGroup.hasMember is abstract: membership is external.
hasMember(group, userId, members) == <<group.id, userId>> \in members

RECURSIVE ruleLoop(_, _, _, _)
ruleLoop(rules, userId, requestedPermission, members) ==
    IF rules = <<>> THEN Return(FALSE)
    ELSE LET rule == Head(rules)
             accessGroup == createObjectAccessGroup(rule.group)
         IN IF accessGroup.kind = "throw" THEN Throw(accessGroup.error)
            ELSE IF /\ hasMember(accessGroup.group, userId, members)
                    /\ isPermissionAllowed(requestedPermission, rule.permission)
            THEN Return(TRUE)
            ELSE ruleLoop(Tail(rules), userId, requestedPermission, members)

\* Mutant: the owner is looked at only after the rules.
canAccessDecision_OwnerLast(userId, aclPolicy, requestedPermission, members) ==
    IF aclPolicy.kind = "null" THEN Return(FALSE)
    ELSE IF aclPolicy.visibility = "public" /\ requestedPermission = READ
    THEN Return(TRUE)
    ELSE IF Falsy(userId) THEN Return(FALSE)
    ELSE LET byRule == ruleLoop(IF aclPolicy.hasRules THEN aclPolicy.aclRules ELSE <<>>,
                                userId, requestedPermission, members)
         IN IF byRule = Return(FALSE) /\ aclPolicy.owner = userId THEN Return(TRUE)
            ELSE byRule

\* Mutant: public visibility allows whatever is requested.
canAccessDecision_PublicAll(userId, aclPolicy, requestedPermission, members) ==
    IF aclPolicy.kind = "null" THEN Return(FALSE)
    ELSE IF aclPolicy.visibility = "public" THEN Return(TRUE)
    ELSE IF Falsy(userId) THEN Return(FALSE)
    ELSE IF aclPolicy.owner = userId THEN Return(TRUE)
    ELSE ruleLoop(IF aclPolicy.hasRules THEN aclPolicy.aclRules ELSE <<>>,
                  userId, requestedPermission, members)

\* Mutant: without a policy, reading is open.
canAccessDecision_OpenRead(userId, aclPolicy, requestedPermission, members) ==
    IF aclPolicy.kind = "null" THEN Return(requestedPermission = READ)
    ELSE IF aclPolicy.visibility = "public" /\ requestedPermission = READ
    THEN Return(TRUE)
    ELSE IF Falsy(userId) THEN Return(FALSE)
    ELSE IF aclPolicy.owner = userId THEN Return(TRUE)
    ELSE ruleLoop(IF aclPolicy.hasRules THEN aclPolicy.aclRules ELSE <<>>,
                  userId, requestedPermission, members)

\* canAccessObject from the policy getObjectAclPolicy returned.
canAccessDecision(userId, aclPolicy, requestedPermission, members) ==
    IF aclPolicy.kind = "null" THEN Return(FALSE)
    ELSE IF aclPolicy.visibility = "public" /\ requestedPermission = READ
    THEN Return(TRUE)
    ELSE IF Falsy(userId) THEN Return(FALSE)
    ELSE IF aclPolicy.owner = userId THEN Return(TRUE)
    ELSE ruleLoop(IF aclPolicy.hasRules THEN aclPolicy.aclRules ELSE <<>>,
                  userId, requestedPermission, members)

\* What canAccessObject does with the rules on the way to its decision: the
\* groups it resolves with createObjectAccessGroup and the groups whose
\* hasMember it calls, in the order of the calls.
NoTrace == [resolved |-> <<>>, asked |-> <<>>]

RECURSIVE ruleTrace(_, _, _, _)
ruleTrace(rules, userId, requestedPermission, members) ==
    IF rules = <<>> THEN NoTrace
    ELSE LET rule == Head(rules)
             accessGroup == createObjectAccessGroup(rule.group)
             rest == ruleTrace(Tail(rules), userId, requestedPermission, members)
         IN IF accessGroup.kind = "throw"
            THEN [resolved |-> <<rule.group>>, asked |-> <<>>]
            ELSE IF /\ hasMember(accessGroup.group, userId, members)
                    /\ isPermissionAllowed(requestedPermission, rule.permission)
            THEN [resolved |-> <<rule.group>>, asked |-> <<rule.group>>]
            ELSE [resolved |-> <<rule.group>> \o rest.resolved,
                  asked |-> <<rule.group>> \o rest.asked]

\* Mutant: the rules are gone through before the owner is looked at.
canAccessTrace_OwnerLast(userId, aclPolicy, requestedPermission, members) ==
    IF aclPolicy.kind = "null" THEN NoTrace
    ELSE IF aclPolicy.visibility = "public" /\ requestedPermission = READ
    THEN NoTrace
    ELSE IF Falsy(userId) THEN NoTrace
    ELSE ruleTrace(IF aclPolicy.hasRules THEN aclPolicy.aclRules ELSE <<>>,
                   userId, requestedPermission, members)

canAccessTrace(userId, aclPolicy, requestedPermission, members) ==
    IF aclPolicy.kind = "null" THEN NoTrace
    ELSE IF aclPolicy.visibility = "public" /\ requestedPermission = READ
    THEN NoTrace
    ELSE IF Falsy(userId) THEN NoTrace
    ELSE IF aclPolicy.owner = userId THEN NoTrace
    ELSE ruleTrace(IF aclPolicy.hasRules THEN aclPolicy.aclRules ELSE <<>>,
                   userId, requestedPermission, members)

(***************************************************************************)
(* The backend object and the HEAD the wrapper issues.                     *)
(***************************************************************************)
Refs == {"r1"}

EmptyMeta == [k \in {} |-> <<>>]

NoObject ==
    [exists |-> FALSE, metadata |-> EmptyMeta, contentType |-> Undefined,
     cacheControl |-> Undefined, contentEncoding |-> Undefined,
     contentDisposition |-> Undefined, body |-> ""]

\* The number of bytes of an object's body.
byteLength(b) ==
    CASE b = "" -> 0
      [] b = "bytes1bytes2" -> 12
      [] OTHER -> 6

\* An optional number: absent, or the number n.
NoNumber == <<>>
Number(n) == <<n>>

\* HeadObjectCommand served by the backend: the object's metadata, the backend's
\* not-found signal, or some other failure.
HeadObject(obj, fault) ==
    IF fault THEN [status |-> "BackendError", ContentType |-> Undefined,
                   CacheControl |-> Undefined, ContentEncoding |-> Undefined,
                   ContentDisposition |-> Undefined, Metadata |-> EmptyMeta,
                   ContentLength |-> NoNumber]
    ELSE IF ~obj.exists
    THEN [status |-> "NotFound", ContentType |-> Undefined,
          CacheControl |-> Undefined, ContentEncoding |-> Undefined,
          ContentDisposition |-> Undefined, Metadata |-> EmptyMeta,
          ContentLength |-> NoNumber]
    ELSE [status |-> "ok", ContentType |-> obj.contentType,
          CacheControl |-> obj.cacheControl, ContentEncoding |-> obj.contentEncoding,
          ContentDisposition |-> obj.contentDisposition, Metadata |-> obj.metadata,
          ContentLength |-> Number(byteLength(obj.body))]

\* S3ObjectWrapper.getMetadata
getMetadata(obj, fault) ==
    LET response == HeadObject(obj, fault)
    IN IF response.status = "ok"
       THEN [kind |-> "return", error |-> "", contentType |-> response.ContentType,
             size |-> response.ContentLength, metadata |-> response.Metadata]
       ELSE IF response.status = "NotFound"
       THEN [kind |-> "throw", error |-> "ObjectNotFoundError",
             contentType |-> Undefined, size |-> NoNumber, metadata |-> EmptyMeta]
       ELSE [kind |-> "throw", error |-> "BackendError",
             contentType |-> Undefined, size |-> NoNumber, metadata |-> EmptyMeta]

\* Mutant: JSON.parse outside the try block.
getObjectAclPolicyOf_ParseThrows(m) ==
    IF m.kind = "throw" THEN [kind |-> "return", value |-> JsNull]
    ELSE IF \/ ACL_POLICY_METADATA_KEY \notin DOMAIN m.metadata
            \/ m.metadata[ACL_POLICY_METADATA_KEY] = <<>>
    THEN [kind |-> "return", value |-> JsNull]
    ELSE LET parsed == JSONparse(m.metadata[ACL_POLICY_METADATA_KEY])
         IN IF parsed.ok THEN [kind |-> "return", value |-> parsed.value]
            ELSE [kind |-> "throw", value |-> JsNull]

\* getObjectAclPolicy, from the outcome of its getMetadata call.
getObjectAclPolicyOf(m) ==
    IF m.kind = "throw" THEN [kind |-> "return", value |-> JsNull]
    ELSE IF \/ ACL_POLICY_METADATA_KEY \notin DOMAIN m.metadata
            \/ m.metadata[ACL_POLICY_METADATA_KEY] = <<>>
    THEN [kind |-> "return", value |-> JsNull]
    ELSE LET parsed == JSONparse(m.metadata[ACL_POLICY_METADATA_KEY])
         IN IF parsed.ok THEN [kind |-> "return", value |-> parsed.value]
            ELSE [kind |-> "return", value |-> JsNull]

\* An object whose only custom metadata is the serialized policy.
ObjectWithPolicy(p) ==
    [NoObject EXCEPT !.exists = TRUE, !.contentType = "text/plain",
                     !.metadata = (ACL_POLICY_METADATA_KEY :> JSONstringify(p))]

(***************************************************************************)
(* SpecAuth: one access decision and one lattice evaluation per behaviour, *)
(* over every input of the bounded sets.                                   *)
(***************************************************************************)
MemberPairs == {<<"g1", "u2">>, <<"g2", "u2">>, <<"g2", "u3">>}

NoAuthCall ==
    [done |-> FALSE, userId |-> Undefined,
     policy |-> [owner |-> "u1", visibility |-> "private", hasRules |-> FALSE,
                 aclRules |-> <<>>],
     requested |-> READ, result |-> Return(FALSE), trace |-> NoTrace]

NoPermCall == [done |-> FALSE, requested |-> READ, granted |-> READ, allowed |-> FALSE]

\* canAccessObject on an object file whose stored policy is p.
canAccessObject(userId, p, requestedPermission) ==
    /\ ~authCall.done
    /\ LET aclPolicy == getObjectAclPolicyOf(getMetadata(ObjectWithPolicy(p), FALSE))
       IN authCall' = [done |-> TRUE, userId |-> userId, policy |-> p,
                       requested |-> requestedPermission,
                       result |-> canAccessDecision(userId, aclPolicy.value,
                                                    requestedPermission, membership),
                       trace |-> canAccessTrace(userId, aclPolicy.value,
                                                requestedPermission, membership)]
    /\ UNCHANGED <<store, membership, setCalls, getCalls, envOps, faults, lastSet, permCall>>
    /\ UNCHANGED <<streamVars, downloadVars, pathVars>>

CheckPermission(requested, granted) ==
    /\ ~permCall.done
    /\ permCall' = [done |-> TRUE, requested |-> requested, granted |-> granted,
                    allowed |-> isPermissionAllowed(requested, granted)]
    /\ UNCHANGED <<store, membership, setCalls, getCalls, envOps, faults, lastSet, authCall>>
    /\ UNCHANGED <<streamVars, downloadVars, pathVars>>

(***************************************************************************)
(* Spec: the backend store, setObjectAclPolicy and getObjectAclPolicy.     *)
(* Every backend command is one step, taken when the backend serves it;    *)
(* the caller's code up to its next await runs in the same step.           *)
(***************************************************************************)
Calls == {"s1", "s2"}
Readers == {"g1"}

RuleA == [group |-> [type |-> "X", id |-> "g1"], permission |-> READ]
RuleB == [group |-> [type |-> "X", id |-> "g2"], permission |-> WRITE]

\* The policies the setObjectAclPolicy calls of Spec are given.
PolicyInputs ==
    {[owner |-> "u1", visibility |-> "private", hasRules |-> FALSE, aclRules |-> <<>>],
     [owner |-> "u2", visibility |-> "public", hasRules |-> TRUE,
      aclRules |-> <<RuleA, RuleB>>],
     [owner |-> "u2", visibility |-> "public", hasRules |-> TRUE,
      aclRules |-> <<RuleB, RuleA>>]}

\* What other clients upload while the calls run: a custom key and an empty
\* reserved field; another value of the custom key and a reserved field that
\* is not JSON.
Uploads ==
    {[exists |-> TRUE,
      metadata |-> ("k1" :> <<"a">>) @@ (ACL_POLICY_METADATA_KEY :> <<>>),
      contentType |-> "image/png", cacheControl |-> "max-age=60",
      contentEncoding |-> "gzip", contentDisposition |-> "inline", body |-> "bytes2"],
     [exists |-> TRUE,
      metadata |-> ("k1" :> <<"b">>) @@ (ACL_POLICY_METADATA_KEY :> <<"{", "owner">>),
      contentType |-> "image/png", cacheControl |-> Undefined,
      contentEncoding |-> Undefined, contentDisposition |-> "attachment",
      body |-> "bytes3"]}

\* The objects the backend may hold at the start: those, one with no custom
\* metadata at all, and one whose reserved field holds JSON null.
StoredObjects ==
    Uploads \cup
    {[exists |-> TRUE, metadata |-> EmptyMeta, contentType |-> "text/plain",
      cacheControl |-> Undefined, contentEncoding |-> Undefined,
      contentDisposition |-> Undefined, body |-> "bytes1"],
     [exists |-> TRUE,
      metadata |-> (ACL_POLICY_METADATA_KEY :> <<"null">>),
      contentType |-> "text/plain", cacheControl |-> Undefined,
      contentEncoding |-> Undefined, contentDisposition |-> Undefined,
      body |-> "bytes1"]}

NoHead == HeadObject(NoObject, FALSE)
NoLastSet == [kind |-> "none", by |-> "", value |-> JsNull]

IdleSet ==
    [pc |-> "idle", ref |-> "r1",
     policy |-> [owner |-> "u1", visibility |-> "private", hasRules |-> FALSE,
                 aclRules |-> <<>>],
     currentMetadata |-> EmptyMeta, head |-> NoHead, result |-> Return(FALSE),
     \* history: another client, or another call's COPY, wrote during the call
     dirtyEnv |-> FALSE, dirtyCopy |-> FALSE]

IdleGet ==
    [pc |-> "idle", ref |-> "r1", result |-> [kind |-> "return", value |-> JsNull]]

InProgress(call) == call.pc \notin {"idle", "done"}

\* A backend call may fail while the fault budget lasts.
FaultChoices == IF faults < MaxFaults THEN {FALSE, TRUE} ELSE {FALSE}
CountFault(fault) == faults' = IF fault THEN faults + 1 ELSE faults

\* History: a write to ref by someone other than setObjectAclPolicy call c.
NoteWriteSet(ref, c, byEnv) ==
    [d \in Calls |->
        IF d # c /\ InProgress(setCalls[d]) /\ setCalls[d].ref = ref
        THEN IF byEnv THEN [setCalls[d] EXCEPT !.dirtyEnv = TRUE]
             ELSE [setCalls[d] EXCEPT !.dirtyCopy = TRUE]
        ELSE setCalls[d]]

\* currentMetadata[ACL_POLICY_METADATA_KEY] = JSON.stringify(aclPolicy)
withPolicy(currentMetadata, aclPolicy) ==
    (ACL_POLICY_METADATA_KEY :> JSONstringify(aclPolicy)) @@ currentMetadata

\* Mutant: the spread the other way round.
updatedMetadata_ExistingWins(existingMetadata, currentMetadata) ==
    existingMetadata @@ currentMetadata

\* { ...existingMetadata, ...currentMetadata }
updatedMetadata(existingMetadata, currentMetadata) ==
    currentMetadata @@ existingMetadata

\* Mutant: a missing object is let through to the COPY.
headOutcome_TryAnyway(response) ==
    IF response.status \in {"ok", "NotFound"}
    THEN [pc |-> "copy", result |-> Return(FALSE)]
    ELSE [pc |-> "done", result |-> Throw("BackendError")]

\* What the second HEAD's outcome makes of the call.
headOutcome(response) ==
    IF response.status = "ok" THEN [pc |-> "copy", result |-> Return(FALSE)]
    ELSE IF response.status = "NotFound"
    THEN [pc |-> "done", result |-> Throw("Object not found")]
    ELSE [pc |-> "done", result |-> Throw("BackendError")]

\* Mutant: the command carries no ContentDisposition.
CopyObject_NoDisposition(obj, metadata, head) ==
    [obj EXCEPT !.metadata = metadata,
                !.contentType = head.ContentType,
                !.cacheControl = head.CacheControl,
                !.contentEncoding = head.ContentEncoding,
                !.contentDisposition = Undefined]

\* CopyObjectCommand to itself with MetadataDirective REPLACE: the bytes stay,
\* the metadata and the four headers are those of the command.
\* Mutant: the copy keeps the headers and the metadata given, not the bytes.
CopyObject_Emptied(obj, metadata, head) ==
    [obj EXCEPT !.metadata = metadata,
                !.contentType = head.ContentType,
                !.cacheControl = head.CacheControl,
                !.contentEncoding = head.ContentEncoding,
                !.contentDisposition = head.ContentDisposition,
                !.body = ""]

CopyObject(obj, metadata, head) ==
    [obj EXCEPT !.metadata = metadata,
                !.contentType = head.ContentType,
                !.cacheControl = head.CacheControl,
                !.contentEncoding = head.ContentEncoding,
                !.contentDisposition = head.ContentDisposition]

\* setObjectAclPolicy is called: the first HEAD (getMetadata) is sent.
SetStart(c, ref, aclPolicy) ==
    /\ setCalls[c].pc = "idle"
    /\ setCalls' = [setCalls EXCEPT ![c] =
            [IdleSet EXCEPT !.pc = "getMetadata", !.ref = ref, !.policy = aclPolicy]]
    /\ UNCHANGED <<store, membership, getCalls, envOps, faults, lastSet, authCall, permCall>>
    /\ UNCHANGED <<streamVars, downloadVars, pathVars>>

\* getMetadata answers; a failure is swallowed. The policy is put into
\* currentMetadata and the second HEAD is sent.
SetGetMetadata(c) ==
    /\ setCalls[c].pc = "getMetadata"
    /\ \E fault \in FaultChoices :
        LET call == setCalls[c]
            m == getMetadata(store[call.ref], fault)
            current == IF m.kind = "return" THEN m.metadata ELSE EmptyMeta
        IN /\ setCalls' = [setCalls EXCEPT ![c] =
                    [call EXCEPT !.pc = "head",
                                 !.currentMetadata = withPolicy(current, call.policy)]]
           /\ CountFault(fault)
    /\ UNCHANGED <<store, membership, getCalls, envOps, lastSet, authCall, permCall>>
    /\ UNCHANGED <<streamVars, downloadVars, pathVars>>

\* The second HEAD answers: the headers are kept and the COPY is sent, or the
\* call fails.
SetHead(c) ==
    /\ setCalls[c].pc = "head"
    /\ \E fault \in FaultChoices :
        LET call == setCalls[c]
            response == HeadObject(store[call.ref], fault)
            outcome == headOutcome(response)
        IN /\ setCalls' = [setCalls EXCEPT ![c] =
                    [call EXCEPT !.pc = outcome.pc, !.result = outcome.result,
                                 !.head = response]]
           /\ CountFault(fault)
    /\ UNCHANGED <<store, membership, getCalls, envOps, lastSet, authCall, permCall>>
    /\ UNCHANGED <<streamVars, downloadVars, pathVars>>

\* The COPY is served: the backend replaces the object's metadata, or fails
\* (a failure, or no source object to copy).
SetCopy(c) ==
    /\ setCalls[c].pc = "copy"
    /\ \E fault \in FaultChoices :
        LET call == setCalls[c]
            obj == store[call.ref]
            merged == updatedMetadata(call.head.Metadata, call.currentMetadata)
        IN /\ CountFault(fault)
           /\ IF fault \/ ~obj.exists
              THEN /\ setCalls' = [setCalls EXCEPT ![c] =
                          [call EXCEPT !.pc = "done",
                                       !.result = Throw(IF fault THEN "BackendError"
                                                        ELSE "NoSuchKey")]]
                   /\ UNCHANGED <<store, lastSet>>
              ELSE LET after == CopyObject(obj, merged, call.head)
                   IN /\ store' = [store EXCEPT ![call.ref] = after]
                      /\ setCalls' = [NoteWriteSet(call.ref, c, FALSE) EXCEPT ![c] =
                              [call EXCEPT !.pc = "done", !.result = Return(TRUE)]]
                      /\ lastSet' = [lastSet EXCEPT ![call.ref] =
                              [kind |-> "set", by |-> c, value |-> AsValue(call.policy)]]
    /\ UNCHANGED <<membership, getCalls, envOps, authCall, permCall>>
    /\ UNCHANGED <<streamVars, downloadVars, pathVars>>

\* getObjectAclPolicy is called: its HEAD is sent.
GetStart(g, ref) ==
    /\ getCalls[g].pc = "idle"
    /\ getCalls' = [getCalls EXCEPT ![g] =
            [IdleGet EXCEPT !.pc = "head", !.ref = ref]]
    /\ UNCHANGED <<store, membership, setCalls, envOps, faults, lastSet, authCall, permCall>>
    /\ UNCHANGED <<streamVars, downloadVars, pathVars>>

\* The HEAD answers and getObjectAclPolicy returns.
GetHead(g) ==
    /\ getCalls[g].pc = "head"
    /\ \E fault \in FaultChoices :
        LET call == getCalls[g]
        IN /\ getCalls' = [getCalls EXCEPT ![g] =
                    [call EXCEPT !.pc = "done",
                                 !.result = getObjectAclPolicyOf(
                                                getMetadata(store[call.ref], fault))]]
           /\ CountFault(fault)
    /\ UNCHANGED <<store, membership, setCalls, envOps, lastSet, authCall, permCall>>
    /\ UNCHANGED <<streamVars, downloadVars, pathVars>>

\* Another client uploads to the reference (uploadFile, or a signed PUT URL).
ExternalPut(ref, obj) ==
    /\ envOps < MaxEnvOps
    /\ envOps' = envOps + 1
    /\ store' = [store EXCEPT ![ref] = obj]
    /\ setCalls' = NoteWriteSet(ref, "", TRUE)
    /\ lastSet' = [lastSet EXCEPT ![ref] = NoLastSet]
    /\ UNCHANGED <<membership, getCalls, faults, authCall, permCall>>
    /\ UNCHANGED <<streamVars, downloadVars, pathVars>>

\* Another client deletes the object (a signed DELETE URL).
ExternalDelete(ref) ==
    /\ envOps < MaxEnvOps
    /\ store[ref].exists
    /\ envOps' = envOps + 1
    /\ store' = [store EXCEPT ![ref] = NoObject]
    /\ setCalls' = NoteWriteSet(ref, "", TRUE)
    /\ lastSet' = [lastSet EXCEPT ![ref] = NoLastSet]
    /\ UNCHANGED <<membership, getCalls, faults, authCall, permCall>>
    /\ UNCHANGED <<streamVars, downloadVars, pathVars>>

(***************************************************************************)
(* SpecStream: S3ObjectWrapper.createReadStream and the Readable it hands  *)
(* out, with the backend body on one side and the stream's reader on the   *)
(* other.  A chunk is a sequence of bytes; the backend delivers the object *)
(* as a sequence of chunks and may fail one of its reads.                  *)
(***************************************************************************)
ChunkValues == {<<"a">>, <<"b", "c">>}

RECURSIVE Concat(_)
\* Buffer.concat: the bytes of the chunks, in order.
Concat(chunks) ==
    IF chunks = <<>> THEN <<>> ELSE Head(chunks) \o Concat(Tail(chunks))

\* Buffer.from(chunk): a fresh buffer holding a copy of the chunk's bytes.
BufferFrom(chunk) == [i \in 1..Len(chunk) |-> chunk[i]]

\* What a response body can offer, and the bodies the backend client returns.
Capabilities == {"Readable", "asyncIterator", "getReader", "pipe", "iterator"}
NativeBody == {"Readable", "asyncIterator", "pipe"}
AsyncIterableBody == {"asyncIterator"}
ReaderBody == {"getReader"}
PipeBody == {"pipe"}
IterableBody == {"iterator"}
OpaqueBody == {}
BodyShapes == {NativeBody, AsyncIterableBody, ReaderBody, PipeBody, IterableBody, OpaqueBody}

\* The branch createReadStream takes for a body, in the order it probes.
branchOf(caps) ==
    IF "Readable" \in caps THEN "native"
    ELSE IF "asyncIterator" \in caps THEN "asyncIterable"
    ELSE IF "getReader" \in caps THEN "reader"
    ELSE IF "pipe" \in caps THEN "pipe"
    ELSE "buffer"

\* errAt = 0: every read succeeds; errAt = k: the k-th read of the body fails.
Bodies ==
    { b \in [present : {TRUE}, caps : BodyShapes,
             chunks : SeqsUpTo(ChunkValues, MaxChunks), errAt : 0..MaxChunks + 1,
             pos : {0}, failed : {FALSE}, released : {FALSE}] :
        b.errAt <= Len(b.chunks) + 1 }

NoBody ==
    [present |-> FALSE, caps |-> OpaqueBody, chunks |-> <<>>, errAt |-> 0,
     pos |-> 0, failed |-> FALSE, released |-> FALSE]

\* One read of the body: the next chunk, the end of the object, or the failure.
BackendNext(b) ==
    IF b.errAt = b.pos + 1 THEN [kind |-> "error"]
    ELSE IF b.pos < Len(b.chunks) THEN [kind |-> "chunk", value |-> b.chunks[b.pos + 1]]
    ELSE [kind |-> "done"]

\* The body after that read: a finished or failed body has let go of its source.
AfterRead(b) ==
    LET r == BackendNext(b)
    IN IF r.kind = "chunk" THEN [b EXCEPT !.pos = @ + 1]
       ELSE IF r.kind = "done" THEN [b EXCEPT !.released = TRUE]
       ELSE [b EXCEPT !.failed = TRUE, !.released = TRUE]

NoStream ==
    [pc |-> "idle", thrown |-> "none", created |-> FALSE, impl |-> "none",
     bridge |-> "none", chunksArr |-> <<>>, buffer |-> <<>>, reading |-> FALSE,
     ended |-> FALSE, endEmitted |-> FALSE, destroyed |-> FALSE, errored |-> "none"]

NoConsumer == [out |-> <<>>, aborted |-> FALSE, posAtAbort |-> 0]

DataEvent(chunk) == [type |-> "data", chunk |-> chunk]
EndEvent == [type |-> "end"]
ErrorEvent(e) == [type |-> "error", error |-> e]

\* new Readable(...): impl says which read() the stream was given.
NewReadable(impl, bridge) ==
    [NoStream EXCEPT !.pc = "returned", !.created = TRUE, !.impl = impl, !.bridge = bridge]

\* stream.push(chunk): dropped on a destroyed stream, an empty chunk adds nothing.
push(s, chunk) ==
    IF s.destroyed THEN s
    ELSE IF Len(chunk) = 0 THEN [s EXCEPT !.reading = FALSE]
    ELSE [s EXCEPT !.buffer = Append(@, chunk), !.reading = FALSE]

\* stream.push(null)
pushNull(s) ==
    IF s.destroyed THEN s ELSE [s EXCEPT !.ended = TRUE, !.reading = FALSE]

\* stream.destroy(error): the first call wins.
destroy(s, e) ==
    IF s.destroyed THEN s ELSE [s EXCEPT !.destroyed = TRUE, !.errored = e]

\* The events destroy(error) adds for the reader: one 'error', on the first call.
destroyEvents(s, e, out) ==
    IF s.destroyed THEN out ELSE Append(out, ErrorEvent(e))

StreamIdle ==
    /\ body = NoBody
    /\ rs = NoStream
    /\ consumer = NoConsumer

GetFaults == {"none", "NoSuchKey", "BackendError"}
Threw(e) == [NoStream EXCEPT !.pc = "threw", !.thrown = e]

\* createReadStream up to its first await on the body, or to its return.
createReadStreamResult(b, fault) ==
    LET branch == branchOf(b.caps)
    IN IF fault = "NoSuchKey" THEN Threw("ObjectNotFoundError")
       ELSE IF fault # "none" THEN Threw(fault)
       ELSE IF ~b.present THEN Threw("ObjectNotFoundError")
       ELSE IF branch = "native" THEN NewReadable("native", "none")
       ELSE IF branch = "asyncIterable" THEN NewReadable("none", "iter")
       ELSE IF branch = "reader" THEN NewReadable("reader", "none")
       ELSE IF branch = "pipe" THEN NewReadable("none", "pipe")
       ELSE [NoStream EXCEPT !.pc = "buffering"]

createReadStream(fault) ==
    /\ rs.pc = "idle"
    /\ dl.pc \in {"off", "opening"}
    /\ rs' = createReadStreamResult(body, fault)
    /\ UNCHANGED <<body, consumer>>
    /\ UNCHANGED <<aclVars, downloadVars, pathVars>>

\* One turn of the async-iterable bridge: for await ... stream.push(Buffer.from(chunk)),
\* then stream.push(null), or stream.destroy(error) from the catch.
IterStep ==
    /\ rs.bridge = "iter"
    /\ LET r == BackendNext(body)
       IN /\ body' = AfterRead(body)
          /\ rs' = IF r.kind = "chunk" THEN push(rs, BufferFrom(r.value))
                   ELSE IF r.kind = "done" THEN [pushNull(rs) EXCEPT !.bridge = "none"]
                   ELSE [destroy(rs, "BackendReadError") EXCEPT !.bridge = "none"]
          /\ consumer' = IF r.kind = "error"
                         THEN [consumer EXCEPT !.out = destroyEvents(rs, "BackendReadError", @)]
                         ELSE consumer
    /\ UNCHANGED <<aclVars, downloadVars, pathVars>>

\* The stream asks for more (its buffer is below the high-water mark) and it has a
\* read(): the reader bridge calls reader.read(), a native stream reads its source.
Read ==
    /\ rs.created /\ rs.impl \in {"reader", "native"}
    /\ ~rs.reading /\ ~rs.ended /\ ~rs.destroyed
    /\ Len(rs.buffer) < HighWaterMark
    /\ rs' = [rs EXCEPT !.reading = TRUE]
    /\ UNCHANGED <<body, consumer>>
    /\ UNCHANGED <<aclVars, downloadVars, pathVars>>

\* The read answers: this.push(Buffer.from(value)), this.push(null) or this.destroy(error).
ReadResolve ==
    /\ rs.created /\ rs.reading
    /\ LET r == BackendNext(body)
       IN /\ body' = AfterRead(body)
          /\ rs' = [(IF r.kind = "chunk" THEN push(rs, BufferFrom(r.value))
                     ELSE IF r.kind = "done" THEN pushNull(rs)
                     ELSE destroy(rs, "BackendReadError")) EXCEPT !.reading = FALSE]
          /\ consumer' = IF r.kind = "error"
                         THEN [consumer EXCEPT !.out = destroyEvents(rs, "BackendReadError", @)]
                         ELSE consumer
    /\ UNCHANGED <<aclVars, downloadVars, pathVars>>

\* The stream asks for more and was built without a read(): Readable's own _read
\* throws ERR_METHOD_NOT_IMPLEMENTED, which destroys the stream.
ReadNotImplemented ==
    /\ rs.created /\ rs.impl = "none"
    /\ ~rs.reading /\ ~rs.ended /\ ~rs.destroyed
    /\ Len(rs.buffer) < HighWaterMark
    /\ rs' = destroy(rs, "ERR_METHOD_NOT_IMPLEMENTED")
    /\ consumer' = [consumer EXCEPT !.out = destroyEvents(rs, "ERR_METHOD_NOT_IMPLEMENTED", @)]
    /\ UNCHANGED body
    /\ UNCHANGED <<aclVars, downloadVars, pathVars>>

\* bodyStream.pipe(stream): the source flows into a Readable, which has neither
\* write() nor end().  Nothing the source emits reaches the stream; a source that
\* calls the missing write() stops at its first chunk with a TypeError of its own.
PipeStep ==
    /\ rs.bridge = "pipe"
    /\ body' = AfterRead(body)
    /\ IF BackendNext(body).kind = "chunk"
       THEN rs' \in {rs, [rs EXCEPT !.bridge = "none"]}
       ELSE rs' = [rs EXCEPT !.bridge = "none"]
    /\ UNCHANGED consumer
    /\ UNCHANGED <<aclVars, downloadVars, pathVars>>

\* One turn of the last-resort loop, for await ... chunks.push(Buffer.from(chunk)),
\* then push(Buffer.concat(chunks)); push(null); return stream.  A body that is not
\* iterable makes the loop throw a TypeError, a failed read throws its error.
BufferStep ==
    /\ rs.pc = "buffering"
    /\ LET r == BackendNext(body)
       IN IF "iterator" \notin body.caps
          THEN /\ rs' = Threw("TypeError")
               /\ UNCHANGED body
          ELSE /\ body' = AfterRead(body)
               /\ rs' = IF r.kind = "chunk"
                        THEN [rs EXCEPT !.chunksArr = Append(@, BufferFrom(r.value))]
                        ELSE IF r.kind = "done"
                        THEN pushNull(push(NewReadable("none", "none"), Concat(rs.chunksArr)))
                        ELSE Threw("BackendReadError")
    /\ UNCHANGED consumer
    /\ UNCHANGED <<aclVars, downloadVars, pathVars>>

\* The reader takes the next buffered chunk ('data').
EmitData ==
    /\ dl.pc = "off"
    /\ rs.created /\ ~rs.destroyed /\ rs.buffer # <<>>
    /\ consumer' = [consumer EXCEPT !.out = Append(@, DataEvent(Head(rs.buffer)))]
    /\ rs' = [rs EXCEPT !.buffer = Tail(@)]
    /\ UNCHANGED body
    /\ UNCHANGED <<aclVars, downloadVars, pathVars>>

\* The buffer is drained after push(null): 'end', and the stream closes itself.
EmitEnd ==
    /\ dl.pc = "off"
    /\ rs.created /\ ~rs.destroyed /\ rs.ended /\ rs.buffer = <<>>
    /\ consumer' = [consumer EXCEPT !.out = Append(@, EndEvent)]
    /\ rs' = [rs EXCEPT !.endEmitted = TRUE, !.destroyed = TRUE]
    /\ UNCHANGED body
    /\ UNCHANGED <<aclVars, downloadVars, pathVars>>

\* The reader gives up: stream.destroy().  A native stream closes its source in its
\* own destroy; the streams built here were given no destroy().
Destroy ==
    /\ dl.pc = "off"
    /\ rs.created /\ ~rs.destroyed
    /\ rs' = destroy(rs, "none")
    /\ consumer' = [consumer EXCEPT !.aborted = TRUE, !.posAtAbort = body.pos]
    /\ body' = IF rs.impl = "native" THEN [body EXCEPT !.released = TRUE] ELSE body
    /\ UNCHANGED <<aclVars, downloadVars, pathVars>>

\* The download call and its response when no download is under way.
NoDownload ==
    [pc |-> "off", ref |-> "r1", contentType |-> Undefined, size |-> NoNumber,
     isPublic |-> FALSE, policyRead |-> "none",
     failure |-> "none", returned |-> FALSE, errorHandled |-> FALSE, lateError |-> FALSE]

\* An Express response nothing has been written to.
NoRes ==
    [contentType |-> Undefined, contentLength |-> <<>>,
     cacheVisibility |-> Undefined, headersSent |-> FALSE,
     status |-> 0, responses |-> 0, body |-> <<>>, ended |-> FALSE,
     needDrain |-> FALSE, closed |-> FALSE]

DownloadIdle ==
    /\ res = NoRes
    /\ dl = NoDownload

(***************************************************************************)
(* Paths.  A string is a sequence of tokens: the separator "/" and names   *)
(* that hold no separator; the string methods of the code work on it.      *)
(***************************************************************************)
Slash == <<"/">>

\* s.startsWith(prefix), s.endsWith(suffix), s.slice(n)
startsWith(s, prefix) ==
    Len(s) >= Len(prefix) /\ SubSeq(s, 1, Len(prefix)) = prefix
endsWith(s, suffix) ==
    Len(s) >= Len(suffix) /\ SubSeq(s, Len(s) - Len(suffix) + 1, Len(s)) = suffix
slice(s, n) == SubSeq(s, n + 1, Len(s))

RECURSIVE split(_)
\* s.split("/"): the pieces between the separators, empty pieces included.
split(s) ==
    IF \A i \in 1..Len(s) : s[i] # "/" THEN <<s>>
    ELSE LET i == CHOOSE k \in 1..Len(s) : s[k] = "/" /\ \A j \in 1..(k - 1) : s[j] # "/"
         IN <<SubSeq(s, 1, i - 1)>> \o split(slice(s, i))

RECURSIVE join(_)
\* parts.join("/")
join(parts) ==
    IF parts = <<>> THEN <<>>
    ELSE IF Len(parts) = 1 THEN parts[1]
    ELSE parts[1] \o Slash \o join(Tail(parts))

nonEmpty(part) == Len(part) > 0

\* The settings a process may run with.
Unset == <<>>
PrivateDirs == {Unset, <<"/", "b", "/", "private">>, <<"/", "b", "/", "private", "/">>}
BucketNames == {Unset, <<"defb">>}
DefaultEnv == [PRIVATE_OBJECT_DIR |-> <<"/", "b", "/", "private">>, R2_BUCKET_NAME |-> <<"defb">>]

\* getPrivateObjectDir, getBucketName
getPrivateObjectDir(e) ==
    IF e.PRIVATE_OBJECT_DIR = Unset THEN Throw("Error: PRIVATE_OBJECT_DIR not set") ELSE Return(e.PRIVATE_OBJECT_DIR)
getBucketName(e) ==
    IF e.R2_BUCKET_NAME = Unset THEN Throw("Error: R2_BUCKET_NAME not set") ELSE Return(e.R2_BUCKET_NAME)

Target(bucketName, objectName) == [bucketName |-> bucketName, objectName |-> objectName]

\* Return the default bucket with the given key, or getBucketName's error.
inDefaultBucket(objectName, e) ==
    IF getBucketName(e).kind = "throw" THEN getBucketName(e)
    ELSE Return(Target(getBucketName(e).value, objectName))

\* Mutant: the empty pieces of the path are kept.
parseObjectPath_KeepEmpty(path, e) ==
    IF ~startsWith(path, Slash) THEN inDefaultBucket(path, e)
    ELSE LET pathParts == Tail(split(path))
         IN IF Len(pathParts) < 1 THEN Throw("Error: Invalid path")
            ELSE IF Len(pathParts) = 1 THEN inDefaultBucket(pathParts[1], e)
            ELSE Return(Target(pathParts[1], join(Tail(pathParts))))

\* parseObjectPath
parseObjectPath(path, e) ==
    IF ~startsWith(path, Slash) THEN inDefaultBucket(path, e)
    ELSE LET pathParts == SelectSeq(split(path), nonEmpty)
         IN IF Len(pathParts) < 1 THEN Throw("Error: Invalid path")
            ELSE IF Len(pathParts) = 1 THEN inDefaultBucket(pathParts[1], e)
            ELSE Return(Target(pathParts[1], join(Tail(pathParts))))

\* URLs: a scheme, a host, a path and perhaps a query.
EntityPrefix == <<"/", "objects", "/">>
R2Marker == ".r2.cloudflarestorage.com"
R2Host == "acct.r2.cloudflarestorage.com"
MarkerTokens == {R2Marker, R2Host}

\* rawPath.includes(".r2.cloudflarestorage.com")
includesMarker(s) == \E i \in 1..Len(s) : s[i] \in MarkerTokens

\* new URL(rawPath).pathname: what follows the host up to the query, "/" if nothing does.
pathname(url) ==
    LET rest == slice(url, 2)
        beforeQuery == IF \E i \in 1..Len(rest) : rest[i] = "?"
                       THEN SubSeq(rest, 1, (CHOOSE i \in 1..Len(rest) :
                                rest[i] = "?" /\ \A j \in 1..(i - 1) : rest[j] # "?") - 1)
                       ELSE rest
    IN IF beforeQuery = <<>> THEN Slash ELSE beforeQuery

\* The directory with its trailing separator.
withSlash(dir) == IF endsWith(dir, Slash) THEN dir ELSE dir \o Slash

\* normalizeObjectEntityPath
normalizeObjectEntityPath(rawPath, e) ==
    IF startsWith(rawPath, <<"https://">>) /\ includesMarker(rawPath)
    THEN IF getPrivateObjectDir(e).kind = "throw" THEN getPrivateObjectDir(e)
         ELSE LET rawObjectPath == pathname(rawPath)
                  objectEntityDir == withSlash(getPrivateObjectDir(e).value)
              IN IF ~startsWith(rawObjectPath, objectEntityDir) THEN Return(rawObjectPath)
                 ELSE Return(EntityPrefix \o slice(rawObjectPath, Len(objectEntityDir)))
    ELSE Return(rawPath)

\* getObjectEntityFile up to its HEAD: the bucket and key it will look at.
entityTarget(objectPath, e) ==
    IF ~startsWith(objectPath, EntityPrefix) THEN Throw("ObjectNotFoundError")
    ELSE LET parts == split(slice(objectPath, 1))
         IN IF Len(parts) < 2 THEN Throw("ObjectNotFoundError")
            ELSE IF getPrivateObjectDir(e).kind = "throw" THEN getPrivateObjectDir(e)
            ELSE parseObjectPath(withSlash(getPrivateObjectDir(e).value) \o join(Tail(parts)), e)

\* The object the backend holds at a bucket and key.
ObjectAt(target) == IF target = location THEN store["r1"] ELSE NoObject

\* getObjectEntityFile: the outcome, and the HEADs it has sent.
getObjectEntityFile(objectPath, e, fault) ==
    LET target == entityTarget(objectPath, e)
    IN IF target.kind = "throw" THEN [result |-> target, heads |-> <<>>]
       ELSE [result |-> IF getMetadata(ObjectAt(target.value), fault).kind = "throw"
                        THEN Throw("ObjectNotFoundError") ELSE target,
             heads |-> <<target.value>>]

(***************************************************************************)
(* Signed URLs.  A signed URL carries the command it was signed for (the   *)
(* method, the bucket and the key), the time of signing and the number of  *)
(* seconds it is valid for; the backend accepts a request made with it     *)
(* only for that command and only before that time has passed.             *)
(***************************************************************************)
Methods == {"GET", "PUT", "DELETE", "HEAD"}
UploadTtlSec == 900

\* randomUUID: some identifier it has not returned before.
ObjectIds == {"id1", "id2", "id3"}

\* Mutant: an identifier may be returned twice.
randomUUID_Repeating(used) == ObjectIds

randomUUID(used) == ObjectIds \ used

\* The command objects of the four methods.
Command(method, bucketName, objectName) ==
    [method |-> method, Bucket |-> bucketName, Key |-> objectName]

getSignedUrl(command, expiresIn, now) ==
    [command |-> command, date |-> now, expires |-> expiresIn]

\* The backend accepts the request made with a signed URL at the time now.
accepts(url, command, now) ==
    /\ command = url.command
    /\ now < url.date + url.expires

\* Mutant: every request is signed as a GET.
signObjectURL_AlwaysGet(bucketName, objectName, method, ttlSec, now) ==
    IF method \in Methods
    THEN Return(getSignedUrl(Command("GET", bucketName, objectName), ttlSec, now))
    ELSE Throw("Error: Unsupported method")

\* signObjectURL
signObjectURL(bucketName, objectName, method, ttlSec, now) ==
    IF method \in Methods
    THEN Return(getSignedUrl(Command(method, bucketName, objectName), ttlSec, now))
    ELSE Throw("Error: Unsupported method")

\* Mutant: the upload goes straight under the private directory.
uploadPath_Flat(privateObjectDir, objectId) ==
    privateObjectDir \o <<"/", objectId>>

\* The path getObjectEntityUploadURL signs for the identifier objectId.
uploadPath(privateObjectDir, objectId) ==
    privateObjectDir \o <<"/", "uploads", "/", objectId>>

\* getObjectEntityUploadURL, given the identifier randomUUID returns.
getObjectEntityUploadURL(e, objectId, now) ==
    IF getPrivateObjectDir(e).kind = "throw" THEN getPrivateObjectDir(e)
    ELSE LET fullPath == uploadPath(getPrivateObjectDir(e).value, objectId)
             target == parseObjectPath(fullPath, e)
         IN IF target.kind = "throw" THEN target
            ELSE signObjectURL(target.value.bucketName, target.value.objectName,
                               "PUT", UploadTtlSec, now)

NoSignOp ==
    [op |-> "none", request |-> Command("", <<>>, <<>>), ttlSec |-> 0,
     objectId |-> "", at |-> 0, result |-> Return(<<>>), sent |-> <<>>]

SignIdle ==
    /\ clock = 0
    /\ uuids = {}
    /\ issued = <<>>
    /\ signOp = NoSignOp

(***************************************************************************)
(* api/index.ts: the Express app of the process, initializeApp and the     *)
(* handler that awaits it.                                                 *)
(***************************************************************************)
MaxInvocations == 3
Invocations == 1..MaxInvocations

\* The app as the module creates it: the body parsers and the request log.
NewApp ==
    [stack |-> <<"json", "urlencoded", "requestLog">>, registerRoutesCalls |-> 0]

\* What initializeApp adds to the app once registerRoutes has settled.
withErrorHandler(a, nodeEnv) ==
    [a EXCEPT !.stack = @ \o (IF nodeEnv = "production" THEN <<"static">> ELSE <<>>)
                          \o <<"errorHandler">>]

AppIdle ==
    /\ appInitialized = FALSE
    /\ app = NewApp
    /\ invocation = [i \in Invocations |-> "idle"]

(***************************************************************************)
(* SpecPath: one call of parseObjectPath, normalizeObjectEntityPath,       *)
(* getObjectEntityFile or trySetObjectEntityAclPolicy per behaviour, over  *)
(* every input of the bounded sets.                                        *)
(***************************************************************************)
\* getPublicObjectSearchPaths: the entries of PUBLIC_OBJECT_SEARCH_PATHS that
\* are not empty, each once, in order; an error when there is none.
RECURSIVE distinctPaths(_)
distinctPaths(paths) ==
    IF paths = <<>> THEN <<>>
    ELSE LET front == distinctPaths(SubSeq(paths, 1, Len(paths) - 1))
             last == paths[Len(paths)]
         IN IF last = <<>> \/ \E k \in 1..Len(front) : front[k] = last
            THEN front ELSE Append(front, last)

getPublicObjectSearchPaths(e) ==
    IF distinctPaths(e.PUBLIC_OBJECT_SEARCH_PATHS) = <<>>
    THEN Throw("Error: PUBLIC_OBJECT_SEARCH_PATHS not set")
    ELSE Return(distinctPaths(e.PUBLIC_OBJECT_SEARCH_PATHS))



\* searchPublicObject over the search paths left: the outcome and the HEADs
\* sent; failAt is the HEAD the backend fails (0: none).
RECURSIVE searchFrom(_, _, _, _, _)
searchFrom(searchPaths, filePath, e, failAt, heads) ==
    IF searchPaths = <<>> THEN [result |-> Return(JsNull), heads |-> heads]
    ELSE LET fullPath == Head(searchPaths) \o Slash \o filePath
             target == parseObjectPath(fullPath, e)
         IN IF target.kind = "throw" THEN [result |-> target, heads |-> heads]
            ELSE LET sent == Append(heads, target.value)
                     metadata == getMetadata(ObjectAt(target.value), Len(sent) = failAt)
                 IN IF metadata.kind = "return"
                    THEN [result |-> target, heads |-> sent]
                    ELSE IF metadata.error = "ObjectNotFoundError"
                    THEN searchFrom(Tail(searchPaths), filePath, e, failAt, sent)
                    ELSE [result |-> Throw(metadata.error), heads |-> sent]

searchPublicObject(filePath, e, failAt) ==
    IF getPublicObjectSearchPaths(e).kind = "throw"
    THEN [result |-> getPublicObjectSearchPaths(e), heads |-> <<>>]
    ELSE searchFrom(getPublicObjectSearchPaths(e).value, filePath, e, failAt, <<>>)

\* uploadFile's PutObjectCommand, and the object the backend holds after it.
PutObjectCommand(target, fileBuffer, contentType) ==
    [Bucket |-> target.bucketName, Key |-> target.objectName,
     Body |-> fileBuffer, ContentType |-> contentType]

PutObject(command) ==
    [NoObject EXCEPT !.exists = TRUE, !.contentType = command.ContentType,
                     !.body = command.Body]

\* uploadFile up to the command: the target under the private directory.
uploadTarget(filePath, e) ==
    IF getPrivateObjectDir(e).kind = "throw" THEN getPrivateObjectDir(e)
    ELSE parseObjectPath(getPrivateObjectDir(e).value \o Slash \o filePath, e)

RuleFreePolicy ==
    [owner |-> "u1", visibility |-> "private", hasRules |-> FALSE, aclRules |-> <<>>]

NoPathOp ==
    [pc |-> "idle", op |-> "none", input |-> <<>>, normalized |-> Return(<<>>),
     result |-> Return(<<>>), heads |-> <<>>, puts |-> <<>>]

PathIdle ==
    /\ pathOp = NoPathOp
    /\ env = DefaultEnv
    /\ AppIdle
    /\ location = Target(<<"b">>, <<"private", "/", "e1">>)
    /\ SignIdle

SegmentValues == {<<>>, <<"objects">>, <<"b">>, <<"private">>, <<"e1">>}
UrlSegmentValues == SegmentValues \ {<<"objects">>}

\* Paths as callers write them, with and without a leading separator.
PathStrings ==
    {lead \o join(segs) : lead \in {<<>>, Slash}, segs \in SeqsUpTo(SegmentValues, MaxSegments)}

UrlStrings ==
    {<<scheme, host>> \o path \o query :
        scheme \in {"https://", "http://"},
        host \in {R2Host, "example.com"},
        path \in {<<>>} \cup {Slash \o join(segs) : segs \in SeqsUpTo(UrlSegmentValues, MaxSegments)},
        query \in {<<>>, <<"?", R2Marker>>}}

RawPaths == PathStrings \cup UrlStrings

ParseObjectPath(path) ==
    /\ pathOp.pc = "idle"
    /\ pathOp' = [NoPathOp EXCEPT !.pc = "done", !.op = "parseObjectPath", !.input = path,
                                  !.result = parseObjectPath(path, env)]
    /\ UNCHANGED <<processVars, location, signVars>>
    /\ UNCHANGED <<aclVars, streamVars, downloadVars>>

NormalizeObjectEntityPath(rawPath) ==
    /\ pathOp.pc = "idle"
    /\ pathOp' = [NoPathOp EXCEPT !.pc = "done", !.op = "normalizeObjectEntityPath",
                                  !.input = rawPath,
                                  !.result = normalizeObjectEntityPath(rawPath, env)]
    /\ UNCHANGED <<processVars, location, signVars>>
    /\ UNCHANGED <<aclVars, streamVars, downloadVars>>

GetObjectEntityFile(objectPath, fault) ==
    /\ pathOp.pc = "idle"
    /\ LET r == getObjectEntityFile(objectPath, env, fault)
       IN /\ pathOp' = [NoPathOp EXCEPT !.pc = "done", !.op = "getObjectEntityFile",
                                        !.input = objectPath, !.result = r.result,
                                        !.heads = r.heads]
          /\ faults' = IF fault /\ r.heads # <<>> THEN faults + 1 ELSE faults
    /\ UNCHANGED <<store, membership, setCalls, getCalls, envOps, lastSet, authCall, permCall>>
    /\ UNCHANGED <<processVars, location, signVars>>
    /\ UNCHANGED <<streamVars, downloadVars>>

\* trySetObjectEntityAclPolicy up to the call of setObjectAclPolicy.
TrySetObjectEntityAclPolicy(rawPath, aclPolicy, fault) ==
    /\ pathOp.pc = "idle"
    /\ LET normalizedPath == normalizeObjectEntityPath(rawPath, env)
           op == [NoPathOp EXCEPT !.op = "trySetObjectEntityAclPolicy", !.input = rawPath,
                                  !.normalized = normalizedPath]
       IN IF normalizedPath.kind = "throw"
          THEN /\ pathOp' = [op EXCEPT !.pc = "done", !.result = normalizedPath]
               /\ UNCHANGED <<setCalls, faults>>
          ELSE IF ~startsWith(normalizedPath.value, Slash)
          THEN /\ pathOp' = [op EXCEPT !.pc = "done", !.result = normalizedPath]
               /\ UNCHANGED <<setCalls, faults>>
          ELSE LET r == getObjectEntityFile(normalizedPath.value, env, fault)
               IN /\ faults' = IF fault /\ r.heads # <<>> THEN faults + 1 ELSE faults
                  /\ IF r.result.kind = "throw"
                     THEN /\ pathOp' = [op EXCEPT !.pc = "done", !.result = r.result,
                                                  !.heads = r.heads]
                          /\ UNCHANGED setCalls
                     ELSE /\ pathOp' = [op EXCEPT !.pc = "setting", !.heads = r.heads]
                          /\ setCalls' = [setCalls EXCEPT !["s1"] =
                                 [IdleSet EXCEPT !.pc = "getMetadata", !.ref = "r1",
                                                 !.policy = aclPolicy]]
    /\ UNCHANGED <<store, membership, getCalls, envOps, lastSet, authCall, permCall>>
    /\ UNCHANGED <<processVars, location, signVars>>
    /\ UNCHANGED <<streamVars, downloadVars>>

\* setObjectAclPolicy is over: its error, or return normalizedPath.
TrySetReturn ==
    /\ pathOp.pc = "setting" /\ setCalls["s1"].pc = "done"
    /\ pathOp' = [pathOp EXCEPT !.pc = "done",
                                !.result = IF setCalls["s1"].result.kind = "throw"
                                           THEN setCalls["s1"].result
                                           ELSE pathOp.normalized]
    /\ UNCHANGED <<processVars, location, signVars>>
    /\ UNCHANGED <<aclVars, streamVars, downloadVars>>

PlainObject == [NoObject EXCEPT !.exists = TRUE, !.contentType = "text/plain"]

InitPath ==
    /\ store \in [Refs -> {NoObject, PlainObject}]
    /\ membership = {}
    /\ setCalls = [c \in Calls |-> IdleSet]
    /\ getCalls = [g \in Readers |-> IdleGet]
    /\ envOps = 0
    /\ faults = 0
    /\ lastSet = [r \in Refs |-> NoLastSet]
    /\ authCall = NoAuthCall
    /\ permCall = NoPermCall
    /\ StreamIdle
    /\ DownloadIdle
    /\ pathOp = NoPathOp
    /\ env \in [PRIVATE_OBJECT_DIR : PrivateDirs, R2_BUCKET_NAME : BucketNames]
    /\ location \in {Target(<<"b">>, <<"private", "/", "e1">>), Target(<<"b">>, <<"private">>)}
    /\ SignIdle
    /\ AppIdle

NextPath ==
    \/ /\ pathOp.pc = "idle"
       /\ \E path \in PathStrings : ParseObjectPath(path)
    \/ /\ pathOp.pc = "idle"
       /\ \E rawPath \in RawPaths : NormalizeObjectEntityPath(rawPath)
    \/ /\ pathOp.pc = "idle"
       /\ \E objectPath \in PathStrings, fault \in FaultChoices :
              GetObjectEntityFile(objectPath, fault)
    \/ /\ pathOp.pc = "idle"
       /\ \E rawPath \in RawPaths, fault \in FaultChoices :
              TrySetObjectEntityAclPolicy(rawPath, RuleFreePolicy, fault)
    \/ SetGetMetadata("s1")
    \/ SetHead("s1")
    \/ SetCopy("s1")
    \/ TrySetReturn

SpecPath == InitPath /\ [][NextPath]_vars

AclIdle ==
    /\ store = [r \in Refs |-> NoObject]
    /\ membership = {}
    /\ setCalls = [c \in Calls |-> IdleSet]
    /\ getCalls = [g \in Readers |-> IdleGet]
    /\ envOps = 0
    /\ faults = 0
    /\ lastSet = [r \in Refs |-> NoLastSet]
    /\ authCall = NoAuthCall
    /\ permCall = NoPermCall

InitStream ==
    /\ AclIdle
    /\ body \in Bodies \cup {NoBody}
    /\ rs = NoStream
    /\ consumer = NoConsumer
    /\ DownloadIdle
    /\ PathIdle

NextStream ==
    \/ \E fault \in GetFaults : createReadStream(fault)
    \/ IterStep
    \/ Read
    \/ ReadResolve
    \/ ReadNotImplemented
    \/ PipeStep
    \/ BufferStep
    \/ EmitData
    \/ EmitEnd
    \/ Destroy

SpecStream == InitStream /\ [][NextStream]_vars

(***************************************************************************)
(* SpecDownload: ObjectStorageService.downloadObject writing one object to *)
(* an HTTP response, over the stream createReadStream returns.             *)
(***************************************************************************)
\* res.status(500).json({ error: ... })
\* Number.prototype.toString: the decimal digits.
DigitChars == <<"0", "1", "2", "3", "4", "5", "6", "7", "8", "9">>

RECURSIVE toString(_)
toString(n) ==
    IF n < 10 THEN <<DigitChars[n + 1]>>
    ELSE toString(n \div 10) \o <<DigitChars[(n % 10) + 1]>>

\* metadata.contentType || "application/octet-stream"
contentTypeHeader(contentType) ==
    IF Falsy(contentType) THEN "application/octet-stream" ELSE contentType

\* metadata.size?.toString() || "0"
contentLengthHeader(size) ==
    IF size = NoNumber THEN <<"0">> ELSE toString(size[1])

\* Mutant: every response may be cached by anyone.
cacheControlHeader_Public(isPublic) == "public"

\* The visibility part of `${isPublic ? "public" : "private"}, max-age=...`
cacheControlHeader(isPublic) == IF isPublic THEN "public" ELSE "private"

\* res.status(500).json(...): the body and its headers replace those set before.
send500(r) ==
    [r EXCEPT !.status = 500, !.contentType = "application/json",
              !.contentLength = <<"length of the JSON body">>, !.headersSent = TRUE,
              !.responses = @ + 1, !.ended = TRUE]

\* The catch block and the 'error' listener: a failure response unless headers went out.
reportFailure(r) == IF r.headersSent THEN r ELSE send500(r)

\* The first write or end of a response sends the status line and the headers.
commitHeaders(r) ==
    IF r.headersSent THEN r
    ELSE [r EXCEPT !.status = 200, !.headersSent = TRUE, !.responses = @ + 1]

\* const metadata = await object.getMetadata()
DlGetMetadata(fault) ==
    /\ dl.pc = "start"
    /\ CountFault(fault)
    /\ LET metadata == getMetadata(store[dl.ref], fault)
       IN IF metadata.kind = "throw"
          THEN /\ res' = reportFailure(res)
               /\ dl' = [dl EXCEPT !.pc = "done", !.failure = "head", !.returned = TRUE]
          ELSE /\ dl' = [dl EXCEPT !.pc = "policy", !.contentType = metadata.contentType,
                                   !.size = metadata.size]
               /\ UNCHANGED res
    /\ UNCHANGED <<store, membership, setCalls, getCalls, envOps, lastSet, authCall, permCall>>
    /\ UNCHANGED <<streamVars, pathVars>>

\* const aclPolicy = await getObjectAclPolicy(object); isPublic; res.set({...});
\* then createReadStream is called.
DlGetPolicy(fault) ==
    /\ dl.pc = "policy"
    /\ CountFault(fault)
    /\ LET m == getMetadata(store[dl.ref], fault)
           aclPolicy == getObjectAclPolicyOf(m).value
           isPublic == aclPolicy # JsNull /\ aclPolicy.visibility = "public"
       IN /\ dl' = [dl EXCEPT !.pc = "opening", !.isPublic = isPublic,
                              !.policyRead = IF m.kind = "throw" THEN "failed"
                                             ELSE "answered",
                              !.failure = IF m.kind = "throw" THEN "policy" ELSE @]
          /\ res' = [res EXCEPT
                       !.contentType = contentTypeHeader(dl.contentType),
                       !.contentLength = contentLengthHeader(dl.size),
                       !.cacheVisibility = cacheControlHeader(isPublic)]
    /\ UNCHANGED <<store, membership, setCalls, getCalls, envOps, lastSet, authCall, permCall>>
    /\ UNCHANGED <<streamVars, pathVars>>

\* createReadStream rejected: the catch block.
DlCatch ==
    /\ dl.pc = "opening" /\ rs.pc = "threw"
    /\ res' = reportFailure(res)
    /\ dl' = [dl EXCEPT !.pc = "done", !.failure = "open", !.returned = TRUE]
    /\ UNCHANGED <<aclVars, streamVars, pathVars>>

\* createReadStream resolved: stream.on("error", ...); stream.pipe(res).
DlPipe ==
    /\ dl.pc = "opening" /\ rs.pc = "returned"
    /\ dl' = [dl EXCEPT !.pc = "piping", !.returned = TRUE]
    /\ UNCHANGED res
    /\ UNCHANGED <<aclVars, streamVars, pathVars>>

\* The 'error' listener of the stream.
DlOnError ==
    /\ dl.pc = "piping" /\ ~dl.errorHandled
    /\ consumer.out # <<>> /\ consumer.out[Len(consumer.out)].type = "error"
    /\ res' = reportFailure(res)
    /\ dl' = [dl EXCEPT !.errorHandled = TRUE, !.lateError = res.headersSent]
    /\ UNCHANGED <<aclVars, streamVars, pathVars>>

\* pipe: a 'data' event is written to the response; write() may ask for a drain.
PipeData ==
    /\ dl.pc = "piping"
    /\ rs.created /\ ~rs.destroyed /\ rs.buffer # <<>>
    /\ ~res.needDrain /\ ~res.closed /\ ~res.ended
    /\ \E full \in BOOLEAN :
           res' = [commitHeaders(res) EXCEPT !.body = @ \o Head(rs.buffer), !.needDrain = full]
    /\ consumer' = [consumer EXCEPT !.out = Append(@, DataEvent(Head(rs.buffer)))]
    /\ rs' = [rs EXCEPT !.buffer = Tail(@)]
    /\ UNCHANGED <<body, dl>>
    /\ UNCHANGED <<aclVars, pathVars>>

\* pipe: the stream's 'end' ends the response.
PipeEnd ==
    /\ dl.pc = "piping"
    /\ rs.created /\ ~rs.destroyed /\ rs.ended /\ rs.buffer = <<>>
    /\ ~res.closed /\ ~res.ended
    /\ res' = [commitHeaders(res) EXCEPT !.ended = TRUE]
    /\ consumer' = [consumer EXCEPT !.out = Append(@, EndEvent)]
    /\ rs' = [rs EXCEPT !.endEmitted = TRUE, !.destroyed = TRUE]
    /\ UNCHANGED <<body, dl>>
    /\ UNCHANGED <<aclVars, pathVars>>

\* The client has taken what the response had buffered ('drain').
ResDrain ==
    /\ res.needDrain /\ ~res.closed
    /\ res' = [res EXCEPT !.needDrain = FALSE]
    /\ UNCHANGED <<aclVars, streamVars, dl, pathVars>>

\* The client goes away while the object is being piped: pipe unpipes the stream
\* and leaves it as it is.
ResClose ==
    /\ dl.pc = "piping" /\ ~res.closed /\ ~res.ended
    /\ res' = [res EXCEPT !.closed = TRUE]
    /\ consumer' = [consumer EXCEPT !.aborted = TRUE, !.posAtAbort = body.pos]
    /\ UNCHANGED <<body, rs, dl>>
    /\ UNCHANGED <<aclVars, pathVars>>

DownloadObjects ==
    {NoObject} \cup {ObjectWithPolicy(p) : p \in PolicyInputs}
    \cup {[NoObject EXCEPT !.exists = TRUE, !.contentType = ""]}
    \cup {[ObjectWithPolicy(RuleFreePolicy) EXCEPT !.body = "bytes1bytes2"]}
    \cup {o \in Uploads : o.body = "bytes3"}

InitDownload ==
    /\ store \in [Refs -> DownloadObjects]
    /\ membership = {}
    /\ setCalls = [c \in Calls |-> IdleSet]
    /\ getCalls = [g \in Readers |-> IdleGet]
    /\ envOps = 0
    /\ faults = 0
    /\ lastSet = [r \in Refs |-> NoLastSet]
    /\ authCall = NoAuthCall
    /\ permCall = NoPermCall
    /\ body \in IF store["r1"].exists THEN Bodies ELSE {NoBody}
    /\ rs = NoStream
    /\ consumer = NoConsumer
    /\ res = NoRes
    /\ dl = [NoDownload EXCEPT !.pc = "start"]
    /\ PathIdle

\* What the server does, as opposed to its client.
ServerNext ==
    \/ \E fault \in FaultChoices : DlGetMetadata(fault)
    \/ \E fault \in FaultChoices : DlGetPolicy(fault)
    \/ \E fault \in GetFaults : createReadStream(fault)
    \/ DlCatch
    \/ DlPipe
    \/ DlOnError
    \/ IterStep
    \/ Read
    \/ ReadResolve
    \/ ReadNotImplemented
    \/ PipeStep
    \/ BufferStep
    \/ PipeData
    \/ PipeEnd

NextDownload ==
    \/ ServerNext
    \/ ResDrain
    \/ ResClose

SpecDownload == InitDownload /\ [][NextDownload]_vars

(***************************************************************************)
(* SpecSign: calls of signObjectURL and getObjectEntityUploadURL, one      *)
(* after the other, while the clock advances.                              *)
(***************************************************************************)
\* A URL returned by the call of the operation op.
Issue(op, url) == [op |-> op, url |-> url]

MethodInputs == Methods \cup {"POST"}
TtlInputs == {1, UploadTtlSec}
\* The instants at which the clock is read.
Instants == {0, 1, UploadTtlSec, UploadTtlSec + 1}

SignObjectURL(bucketName, objectName, method, ttlSec) ==
    LET result == signObjectURL(bucketName, objectName, method, ttlSec, clock)
    IN /\ Len(issued) < MaxIssued
       /\ signOp' = [op |-> "signObjectURL",
                     request |-> Command(method, bucketName, objectName),
                     ttlSec |-> ttlSec, objectId |-> "", at |-> clock,
                     result |-> result, sent |-> <<>>]
       /\ issued' = IF result.kind = "return"
                    THEN Append(issued, Issue("signObjectURL", result.value))
                    ELSE issued
       /\ UNCHANGED <<clock, uuids>>
       /\ UNCHANGED <<pathOp, processVars, location>>
       /\ UNCHANGED <<aclVars, streamVars, downloadVars>>

\* getObjectEntityUploadURL: randomUUID is called once the private directory
\* has been read.
GetObjectEntityUploadURL ==
    /\ Len(issued) < MaxIssued
    /\ \E objectId \in randomUUID(uuids) :
           LET result == getObjectEntityUploadURL(env, objectId, clock)
               generated == getPrivateObjectDir(env).kind = "return"
           IN /\ signOp' = [op |-> "getObjectEntityUploadURL",
                            request |-> Command("", <<>>, <<>>), ttlSec |-> 0,
                            objectId |-> IF generated THEN objectId ELSE "",
                            at |-> clock, result |-> result, sent |-> <<>>]
              /\ uuids' = IF generated THEN uuids \cup {objectId} ELSE uuids
              /\ issued' = IF result.kind = "return"
                           THEN Append(issued, Issue("getObjectEntityUploadURL",
                                                     result.value))
                           ELSE issued
    /\ UNCHANGED clock
    /\ UNCHANGED <<pathOp, processVars, location>>
    /\ UNCHANGED <<aclVars, streamVars, downloadVars>>

Tick(t) ==
    /\ t > clock
    /\ clock' = t
    /\ UNCHANGED <<uuids, issued, signOp>>
    /\ UNCHANGED <<pathOp, processVars, location>>
    /\ UNCHANGED <<aclVars, streamVars, downloadVars>>

InitSign ==
    /\ AclIdle
    /\ StreamIdle
    /\ DownloadIdle
    /\ pathOp = NoPathOp
    /\ env \in [PRIVATE_OBJECT_DIR : PrivateDirs, R2_BUCKET_NAME : BucketNames]
    /\ location = Target(<<"b">>, <<"private", "/", "e1">>)
    /\ SignIdle
    /\ AppIdle

NextSign ==
    \/ \E method \in MethodInputs, ttlSec \in TtlInputs :
           SignObjectURL(<<"b">>, <<"e1">>, method, ttlSec)
    \/ GetObjectEntityUploadURL
    \/ \E t \in Instants : Tick(t)

SpecSign == InitSign /\ [][NextSign]_vars

(***************************************************************************)
(* SpecUpload: an upload URL is issued, a client uploads with it, and the  *)
(* object is then looked up by its entity path or its URL is normalized.   *)
(***************************************************************************)
\* The entity path of an upload and the backend's URL of a bucket and key.
uploadEntityPath(objectId) == EntityPrefix \o <<"uploads", "/", objectId>>
objectUrl(bucketName, objectName) ==
    <<"https://", R2Host>> \o Slash \o bucketName \o Slash \o objectName

\* A client uploads with the i-th URL issued, which the backend accepts.
PutSigned(i) ==
    /\ envOps < MaxEnvOps
    /\ issued[i].url.command.method = "PUT"
    /\ accepts(issued[i].url, issued[i].url.command, clock)
    /\ envOps' = envOps + 1
    /\ store' = [store EXCEPT !["r1"] = PlainObject]
    /\ location' = Target(issued[i].url.command.Bucket, issued[i].url.command.Key)
    /\ setCalls' = NoteWriteSet("r1", "", TRUE)
    /\ lastSet' = [lastSet EXCEPT !["r1"] = NoLastSet]
    /\ UNCHANGED <<membership, getCalls, faults, authCall, permCall>>
    /\ UNCHANGED <<pathOp, processVars, signVars>>
    /\ UNCHANGED <<streamVars, downloadVars>>

\* The paths and URLs asked about: those of the identifiers, and the URL
\* written as the private directory followed by /uploads/<id>.
UploadPaths == {uploadEntityPath(objectId) : objectId \in ObjectIds}
UploadUrls ==
    {objectUrl(<<"b">>, <<"private", "/", "uploads", "/", objectId>>) :
         objectId \in ObjectIds}
    \cup {<<"https://", R2Host>> \o uploadPath(dir, objectId) :
              dir \in PrivateDirs \ {Unset}, objectId \in ObjectIds}

InitUpload ==
    /\ AclIdle
    /\ StreamIdle
    /\ DownloadIdle
    /\ pathOp = NoPathOp
    /\ env \in [PRIVATE_OBJECT_DIR : PrivateDirs, R2_BUCKET_NAME : BucketNames]
    /\ location = Target(<<"b">>, <<"private", "/", "e1">>)
    /\ SignIdle
    /\ AppIdle

NextUpload ==
    \/ GetObjectEntityUploadURL
    \/ \E t \in Instants : Tick(t)
    \/ \E i \in 1..Len(issued) : PutSigned(i)
    \/ /\ pathOp.pc = "idle"
       /\ \E objectPath \in UploadPaths, fault \in FaultChoices :
              GetObjectEntityFile(objectPath, fault)
    \/ /\ pathOp.pc = "idle"
       /\ \E rawPath \in UploadUrls : NormalizeObjectEntityPath(rawPath)

SpecUpload == InitUpload /\ [][NextUpload]_vars

(***************************************************************************)
(* SpecInit: invocations of the handler in one process.                    *)
(***************************************************************************)
\* handler is invoked and calls initializeApp, which returns the app when
\* the flag is set and otherwise calls registerRoutes and awaits it.
HandlerInvoke(i) ==
    /\ invocation[i] = "idle"
    /\ IF ~appInitialized
       THEN /\ app' = [app EXCEPT !.registerRoutesCalls = @ + 1]
            /\ invocation' = [invocation EXCEPT ![i] = "awaitRegisterRoutes"]
       ELSE /\ invocation' = [invocation EXCEPT ![i] = "respond"]
            /\ UNCHANGED app
    /\ UNCHANGED <<env, appInitialized>>
    /\ UNCHANGED <<pathOp, location, signVars>>
    /\ UNCHANGED <<aclVars, streamVars, downloadVars>>

\* registerRoutes settles (a rejection is caught and logged); initializeApp
\* installs the static files in production and the error handler, sets the
\* flag and returns the app.
RegisterRoutesSettled(i) ==
    /\ invocation[i] = "awaitRegisterRoutes"
    /\ app' = withErrorHandler(app, env.NODE_ENV)
    /\ appInitialized' = TRUE
    /\ invocation' = [invocation EXCEPT ![i] = "respond"]
    /\ UNCHANGED env
    /\ UNCHANGED <<pathOp, location, signVars>>
    /\ UNCHANGED <<aclVars, streamVars, downloadVars>>

\* The app handles the request and the handler's promise resolves.
Respond(i) ==
    /\ invocation[i] = "respond"
    /\ invocation' = [invocation EXCEPT ![i] = "done"]
    /\ UNCHANGED <<env, appInitialized, app>>
    /\ UNCHANGED <<pathOp, location, signVars>>
    /\ UNCHANGED <<aclVars, streamVars, downloadVars>>

NodeEnvs == {"production", "development"}

InitInit ==
    /\ AclIdle
    /\ StreamIdle
    /\ DownloadIdle
    /\ pathOp = NoPathOp
    /\ env \in [PRIVATE_OBJECT_DIR : {DefaultEnv.PRIVATE_OBJECT_DIR},
                R2_BUCKET_NAME : {DefaultEnv.R2_BUCKET_NAME},
                NODE_ENV : NodeEnvs]
    /\ location = Target(<<"b">>, <<"private", "/", "e1">>)
    /\ SignIdle
    /\ AppIdle

NextInit ==
    \/ \E i \in Invocations : HandlerInvoke(i)
    \/ \E i \in Invocations : RegisterRoutesSettled(i)
    \/ \E i \in Invocations : Respond(i)

SpecInit == InitInit /\ [][NextInit]_vars

(***************************************************************************)
(* The specifications.                                                     *)
(***************************************************************************)
Init ==
    /\ store \in [Refs -> {NoObject} \cup StoredObjects]
    /\ membership = {}
    /\ setCalls = [c \in Calls |-> IdleSet]
    /\ getCalls = [g \in Readers |-> IdleGet]
    /\ envOps = 0
    /\ faults = 0
    /\ lastSet = [r \in Refs |-> NoLastSet]
    /\ authCall = NoAuthCall
    /\ permCall = NoPermCall
    /\ StreamIdle
    /\ DownloadIdle
    /\ PathIdle

Next ==
    \/ \E c \in Calls, ref \in Refs, p \in PolicyInputs : SetStart(c, ref, p)
    \/ \E c \in Calls : SetGetMetadata(c)
    \/ \E c \in Calls : SetHead(c)
    \/ \E c \in Calls : SetCopy(c)
    \/ \E g \in Readers, ref \in Refs : GetStart(g, ref)
    \/ \E g \in Readers : GetHead(g)
    \/ \E ref \in Refs, obj \in Uploads : ExternalPut(ref, obj)
    \/ \E ref \in Refs : ExternalDelete(ref)

Spec == Init /\ [][Next]_vars

InitAuth ==
    /\ store = [r \in Refs |-> NoObject]
    /\ membership \in SUBSET MemberPairs
    /\ setCalls = [c \in Calls |-> IdleSet]
    /\ getCalls = [g \in Readers |-> IdleGet]
    /\ envOps = 0
    /\ faults = 0
    /\ lastSet = [r \in Refs |-> NoLastSet]
    /\ authCall = NoAuthCall
    /\ permCall = NoPermCall
    /\ StreamIdle
    /\ DownloadIdle
    /\ PathIdle

NextAuth ==
    \/ /\ ~authCall.done
       /\ \E userId \in UserIds, p \in ObjectAclPolicy, requested \in ObjectPermission :
              canAccessObject(userId, p, requested)
    \/ /\ ~permCall.done
       /\ \E requested \in ObjectPermission, granted \in ObjectPermission :
              CheckPermission(requested, granted)

SpecAuth == InitAuth /\ [][NextAuth]_vars

(***************************************************************************)
(* SpecAccess: one call of canAccessObject on the object the backend       *)
(* holds, whatever its metadata, with the HEAD of getObjectAclPolicy       *)
(* answered or failed.                                                     *)
(***************************************************************************)
CanAccessObject(userId, requestedPermission, fault) ==
    /\ ~authCall.done
    /\ CountFault(fault)
    /\ LET aclPolicy == getObjectAclPolicyOf(getMetadata(store["r1"], fault)).value
       IN authCall' = [done |-> TRUE, userId |-> userId, policy |-> aclPolicy,
                       requested |-> requestedPermission,
                       result |-> canAccessDecision(userId, aclPolicy,
                                                    requestedPermission, membership),
                       trace |-> canAccessTrace(userId, aclPolicy,
                                                requestedPermission, membership)]
    /\ UNCHANGED <<store, membership, setCalls, getCalls, envOps, lastSet, permCall>>
    /\ UNCHANGED <<streamVars, downloadVars, pathVars>>

AccessObjects ==
    {NoObject} \cup StoredObjects \cup {ObjectWithPolicy(p) : p \in PolicyInputs}

InitAccess ==
    /\ store \in [Refs -> AccessObjects]
    /\ membership \in SUBSET MemberPairs
    /\ setCalls = [c \in Calls |-> IdleSet]
    /\ getCalls = [g \in Readers |-> IdleGet]
    /\ envOps = 0
    /\ faults = 0
    /\ lastSet = [r \in Refs |-> NoLastSet]
    /\ authCall = NoAuthCall
    /\ permCall = NoPermCall
    /\ StreamIdle
    /\ DownloadIdle
    /\ PathIdle

NextAccess ==
    \E userId \in UserIds, requested \in ObjectPermission, fault \in FaultChoices :
        CanAccessObject(userId, requested, fault)

SpecAccess == InitAccess /\ [][NextAccess]_vars

(***************************************************************************)
(* SpecFrame: every operation of the storage service against one backend:  *)
(* either one download, or the other operations in any order.              *)
(***************************************************************************)
SearchPublicObject(filePath, failAt) ==
    /\ pathOp.pc = "idle"
    /\ LET r == searchPublicObject(filePath, env, failAt)
       IN /\ pathOp' = [NoPathOp EXCEPT !.pc = "done", !.op = "searchPublicObject",
                                        !.input = filePath, !.result = r.result,
                                        !.heads = r.heads]
          /\ faults' = IF r.result.kind = "throw" /\ r.heads # <<>> /\ failAt = Len(r.heads)
                       THEN faults + 1 ELSE faults
    /\ UNCHANGED <<store, membership, setCalls, getCalls, envOps, lastSet, authCall, permCall>>
    /\ UNCHANGED <<processVars, location, signVars>>
    /\ UNCHANGED <<streamVars, downloadVars>>

\* uploadFile: one PutObjectCommand; the backend replaces the object at its
\* bucket and key, which the model follows when it is the key of r1.
UploadFile(filePath, fileBuffer, contentType, fault) ==
    /\ pathOp.pc = "idle"
    /\ LET target == uploadTarget(filePath, env)
           command == PutObjectCommand(target.value, fileBuffer,
                          IF contentType = Undefined THEN "application/octet-stream"
                          ELSE contentType)
       IN IF target.kind = "throw"
          THEN /\ pathOp' = [NoPathOp EXCEPT !.pc = "done", !.op = "uploadFile",
                                             !.input = filePath, !.result = target]
               /\ UNCHANGED <<store, faults, setCalls, lastSet>>
          ELSE /\ pathOp' = [NoPathOp EXCEPT !.pc = "done", !.op = "uploadFile",
                                 !.input = filePath, !.puts = <<command>>,
                                 !.result = IF fault THEN Throw("BackendError")
                                            ELSE Return(<<>>)]
               /\ CountFault(fault)
               /\ IF ~fault /\ target.value = location
                  THEN /\ store' = [store EXCEPT !["r1"] = PutObject(command)]
                       /\ setCalls' = NoteWriteSet("r1", "", TRUE)
                       /\ lastSet' = [lastSet EXCEPT !["r1"] = NoLastSet]
                  ELSE UNCHANGED <<store, setCalls, lastSet>>
    /\ UNCHANGED <<membership, getCalls, envOps, authCall, permCall>>
    /\ UNCHANGED <<processVars, location, signVars>>
    /\ UNCHANGED <<streamVars, downloadVars>>

Downloading == dl.pc # NoDownload.pc

SearchPathInputs ==
    {<<>>,
     << <<"/", "b", "/", "public">>, <<>>, <<"/", "b", "/", "public">>,
        <<"/", "b", "/", "private">> >>}
FilePaths == {<<"e1">>, <<"f1">>}
FrameObjects ==
    {NoObject, ObjectWithPolicy(RuleFreePolicy)} \cup {o \in Uploads : o.body = "bytes3"}

InitFrame ==
    /\ membership = {}
    /\ setCalls = [c \in Calls |-> IdleSet]
    /\ getCalls = [g \in Readers |-> IdleGet]
    /\ envOps = 0
    /\ faults = 0
    /\ lastSet = [r \in Refs |-> NoLastSet]
    /\ authCall = NoAuthCall
    /\ permCall = NoPermCall
    /\ rs = NoStream
    /\ consumer = NoConsumer
    /\ res = NoRes
    /\ dl \in {NoDownload, [NoDownload EXCEPT !.pc = "start"]}
    /\ store \in [Refs -> FrameObjects]
    /\ body \in IF Downloading /\ store["r1"].exists THEN Bodies ELSE {NoBody}
    /\ pathOp = NoPathOp
    /\ env \in [PRIVATE_OBJECT_DIR : {DefaultEnv.PRIVATE_OBJECT_DIR},
                R2_BUCKET_NAME : {DefaultEnv.R2_BUCKET_NAME},
                PUBLIC_OBJECT_SEARCH_PATHS : SearchPathInputs]
    /\ location = Target(<<"b">>, <<"private", "/", "e1">>)
    /\ SignIdle
    /\ AppIdle

\* No operation is under way: each is idle or has finished.
NoneRunning ==
    /\ setCalls["s1"].pc \in {"idle", "done"}
    /\ getCalls["g1"].pc \in {"idle", "done"}

\* An operation other than the download may start.
MayStart == ~Downloading /\ NoneRunning

NextFrame ==
    \/ /\ Downloading
       /\ NextDownload
    \/ /\ MayStart
       /\ \E p \in PolicyInputs : SetStart("s1", "r1", p)
    \/ /\ MayStart
       /\ GetStart("g1", "r1")
    \/ /\ MayStart
       /\ \E requested \in ObjectPermission, fault \in FaultChoices :
              CanAccessObject("u2", requested, fault)
    \/ /\ MayStart
       /\ \E objectPath \in {uploadEntityPath("id1"), EntityPrefix \o <<"e1">>},
             fault \in FaultChoices :
              GetObjectEntityFile(objectPath, fault)
    \/ /\ MayStart
       /\ \E filePath \in FilePaths, failAt \in 0..MaxFaults - faults :
              SearchPublicObject(filePath, failAt)
    \/ /\ MayStart
       /\ \E filePath \in FilePaths, contentType \in {Undefined, "image/png"},
             fault \in FaultChoices :
              UploadFile(filePath, "bytes1", contentType, fault)
    \/ /\ MayStart
       /\ issued = <<>>
       /\ GetObjectEntityUploadURL
    \/ /\ ~Downloading
       /\ SetGetMetadata("s1")
    \/ /\ ~Downloading
       /\ SetHead("s1")
    \/ /\ ~Downloading
       /\ SetCopy("s1")
    \/ /\ ~Downloading
       /\ GetHead("g1")

SpecFrame == InitFrame /\ [][NextFrame]_vars

(***************************************************************************)
(* Claims about the access decision (SpecAuth).                            *)
(***************************************************************************)
RulesOf(p) == IF p.hasRules THEN p.aclRules ELSE <<>>

\* Some rule names a group the user belongs to and grants enough for the request.
SomeRuleAllows(p, userId, requested) ==
    \E i \in 1..Len(RulesOf(p)) :
        /\ hasMember(RulesOf(p)[i].group, userId, membership)
        /\ (RulesOf(p)[i].permission = WRITE
            \/ (requested = READ /\ RulesOf(p)[i].permission = READ))

\* C1: owner bypass. For every stored policy, whatever its visibility and its
\* rules, a call with userId = the policy's owner returns true, for READ and
\* for WRITE.
C1_OwnerBypass ==
    (authCall.done /\ authCall.userId = authCall.policy.owner)
        => authCall.result = Return(TRUE)

C1_Witness ==
    /\ authCall.done
    /\ authCall.userId = authCall.policy.owner
    /\ authCall.policy.visibility = "private"
    /\ authCall.requested = WRITE
    /\ Len(RulesOf(authCall.policy)) = MaxRules
    /\ authCall.result = Return(TRUE)

\* C2: public visibility grants READ only. Without a userId a public policy
\* gives true for READ and false for WRITE; and whenever WRITE is allowed the
\* userId is present and is the owner or a member of a group whose rule has
\* permission WRITE.
C2_PublicReadOnly ==
    /\ (authCall.done /\ authCall.userId = Undefined
            /\ authCall.policy.visibility = "public")
           => authCall.result = Return(authCall.requested = READ)
    /\ (authCall.done /\ authCall.requested = WRITE /\ authCall.result = Return(TRUE))
           => /\ ~Falsy(authCall.userId)
              /\ \/ authCall.userId = authCall.policy.owner
                 \/ \E i \in 1..Len(RulesOf(authCall.policy)) :
                       /\ hasMember(RulesOf(authCall.policy)[i].group,
                                    authCall.userId, membership)
                       /\ RulesOf(authCall.policy)[i].permission = WRITE

C2_Witness ==
    /\ authCall.done
    /\ authCall.userId = Undefined
    /\ authCall.policy.visibility = "public"
    /\ authCall.requested = WRITE
    /\ authCall.result = Return(FALSE)

ExamplePolicy ==
    [owner |-> "u1", visibility |-> "private", hasRules |-> TRUE,
     aclRules |-> <<[group |-> [type |-> "X", id |-> "g1"], permission |-> READ]>>]

\* C3: rule-based grant. For the private policy of owner u1 with the one rule
\* (group g1 of type X, read), a member u2 of g1 gets true for READ and false
\* for WRITE and a non-member u3 gets false for READ; in general a present
\* non-owner userId on a private policy is allowed exactly when some rule's
\* group has the user as a member and the rule's permission satisfies the
\* request.
C3_RuleBasedGrant ==
    /\ (authCall.done /\ authCall.policy = ExamplePolicy
            /\ <<"g1", "u2">> \in membership /\ <<"g1", "u3">> \notin membership)
           => /\ (authCall.userId = "u2" /\ authCall.requested = READ)
                     => authCall.result = Return(TRUE)
              /\ (authCall.userId = "u2" /\ authCall.requested = WRITE)
                     => authCall.result = Return(FALSE)
              /\ (authCall.userId = "u3" /\ authCall.requested = READ)
                     => authCall.result = Return(FALSE)
    /\ (authCall.done /\ authCall.policy.visibility = "private"
            /\ ~Falsy(authCall.userId) /\ authCall.userId # authCall.policy.owner)
           => authCall.result =
                  Return(SomeRuleAllows(authCall.policy, authCall.userId,
                                        authCall.requested))

\* C4: permission lattice. For every requested and granted permission, the
\* grant satisfies the request exactly when granted = WRITE or both are READ;
\* a READ grant never satisfies a WRITE request.
C4_PermissionLattice ==
    permCall.done
        => /\ permCall.allowed =
                  (\/ permCall.granted = WRITE
                   \/ (permCall.requested = READ /\ permCall.granted = READ))
           /\ (permCall.granted = READ /\ permCall.requested = WRITE)
                  => ~permCall.allowed

C4_Witness ==
    /\ permCall.done
    /\ permCall.requested = WRITE
    /\ permCall.granted = READ
    /\ ~permCall.allowed

\* The rule iteration of the call reaches a rule whose group type is not
\* registered: the three earlier steps decide nothing, and every rule before
\* it is of a registered type and does not allow the request.
ReachesUnknownType ==
    /\ authCall.done
    /\ ~(authCall.policy.visibility = "public" /\ authCall.requested = READ)
    /\ ~Falsy(authCall.userId)
    /\ authCall.userId # authCall.policy.owner
    /\ \E i \in 1..Len(RulesOf(authCall.policy)) :
          /\ RulesOf(authCall.policy)[i].group.type \notin ObjectAccessGroupType
          /\ \A j \in 1..(i - 1) :
                /\ RulesOf(authCall.policy)[j].group.type \in ObjectAccessGroupType
                /\ ~(/\ hasMember(RulesOf(authCall.policy)[j].group,
                                  authCall.userId, membership)
                     /\ RulesOf(authCall.policy)[j].permission \in
                            (IF authCall.requested = READ THEN {READ, WRITE}
                             ELSE {WRITE}))

\* C5: an unknown group type is an error, not a deny. Whenever the rule
\* iteration reaches a rule whose group type has no registered membership
\* checker, the call fails with the error raised to the caller and returns
\* neither false nor true.
C5_UnknownTypeThrows ==
    ReachesUnknownType
        => /\ authCall.result.kind = "throw"
           /\ authCall.result.error = "Unknown access group type"

C5_Witness ==
    /\ ReachesUnknownType
    /\ authCall.policy.visibility = "public"
    /\ authCall.requested = WRITE
    /\ <<RulesOf(authCall.policy)[1].group.id, authCall.userId>> \in membership
    /\ authCall.result.kind = "throw"

(***************************************************************************)
(* Claims about the policy store (Spec).                                   *)
(***************************************************************************)
TheRef == CHOOSE r \in Refs : TRUE

\* The step in which call c's second HEAD is answered.
HeadAnswered(c) == setCalls[c].pc = "head" /\ setCalls'[c].pc # "head"
\* The step in which call c's COPY is answered.
CopyAnswered(c) == setCalls[c].pc = "copy" /\ setCalls'[c].pc # "copy"
\* The step in which reader g's HEAD is answered.
ReadAnswered(g) == getCalls[g].pc = "head" /\ getCalls'[g].pc # "head"

ExistingRefs == {r \in Refs : store[r].exists}

C7_MetadataPreserved ==
    [][\A c \in Calls :
          (/\ CopyAnswered(c)
           /\ setCalls'[c].result = Return(TRUE)
           /\ ~setCalls[c].dirtyEnv /\ ~setCalls[c].dirtyCopy)
              => LET before == store[setCalls[c].ref]
                     after == store'[setCalls[c].ref]
                 IN /\ DOMAIN after.metadata =
                           DOMAIN before.metadata \cup {ACL_POLICY_METADATA_KEY}
                    /\ \A k \in DOMAIN before.metadata \ {ACL_POLICY_METADATA_KEY} :
                           after.metadata[k] = before.metadata[k]
                    /\ after.metadata[ACL_POLICY_METADATA_KEY] =
                           JSONstringify(setCalls[c].policy)
                    /\ after.contentType = before.contentType
                    /\ after.cacheControl = before.cacheControl
                    /\ after.contentEncoding = before.contentEncoding
                    /\ after.contentDisposition = before.contentDisposition
                    /\ after.body = before.body
                    /\ after.exists]_vars

C7_Witness ==
    \E c \in Calls :
        /\ setCalls[c].pc = "done"
        /\ setCalls[c].result = Return(TRUE)
        /\ ~setCalls[c].dirtyEnv /\ ~setCalls[c].dirtyCopy
        /\ lastSet[TheRef].by = c
        /\ "k1" \in DOMAIN store[TheRef].metadata
        /\ store[TheRef].contentDisposition = "inline"
        /\ store[TheRef].contentEncoding = "gzip"
        /\ store[TheRef].metadata[ACL_POLICY_METADATA_KEY] =
               JSONstringify(setCalls[c].policy)

\* C8: round trip and read-after-write. A getPolicy whose HEAD is answered
\* (the backend answering it) when the last write to the reference is a
\* completed setPolicy(ref, P) returns a value equal to P: same owner, same
\* visibility, same rules in the same order. This covers every getPolicy
\* that starts after that setPolicy completed with no write in between.
C8_RoundTrip ==
    [][\A g \in Readers :
          (/\ ReadAnswered(g)
           /\ faults' = faults
           /\ lastSet[getCalls[g].ref].kind = "set")
              => /\ getCalls'[g].result.kind = "return"
                 /\ getCalls'[g].result.value = lastSet[getCalls[g].ref].value
                 /\ getCalls'[g].result.value =
                        AsValue(setCalls[lastSet[getCalls[g].ref].by].policy)]_vars

C8_Witness ==
    \E g \in Readers :
        /\ getCalls[g].pc = "done"
        /\ lastSet[TheRef].kind = "set"
        /\ getCalls[g].result.value.kind = "policy"
        /\ getCalls[g].result.value.owner = "u2"
        /\ getCalls[g].result.value.visibility = "public"
        /\ getCalls[g].result.value.aclRules = <<RuleB, RuleA>>

\* C9: lost update. Two setPolicy calls on the same reference that overlap,
\* with no other writer, no backend failure and the object there, both
\* complete without error; once both have finished the stored policy is the
\* one of the call whose COPY completed last, and the other call's policy is
\* gone with no error reported to either caller.
C9_LastCopyWins ==
    /\ (envOps = 0 /\ faults = 0 /\ store[TheRef].exists)
           => \A c \in Calls : setCalls[c].pc = "done" => setCalls[c].result = Return(TRUE)
    /\ \A c \in Calls, d \in Calls :
           (/\ c # d
            /\ setCalls[c].pc = "done" /\ setCalls[c].result = Return(TRUE)
            /\ setCalls[d].pc = "done" /\ setCalls[d].result = Return(TRUE)
            /\ lastSet[TheRef].kind = "set" /\ lastSet[TheRef].by = c)
               => /\ store[TheRef].metadata[ACL_POLICY_METADATA_KEY] =
                         JSONstringify(setCalls[c].policy)
                  /\ JSONparse(store[TheRef].metadata[ACL_POLICY_METADATA_KEY]) =
                         Parsed(AsValue(setCalls[c].policy))

C9_Witness ==
    /\ envOps = 0 /\ faults = 0
    /\ \A c \in Calls : setCalls[c].pc = "done" /\ setCalls[c].result = Return(TRUE)
    /\ setCalls["s1"].policy # setCalls["s2"].policy
    /\ setCalls["s1"].dirtyCopy
    /\ lastSet[TheRef].by = "s1"
    /\ JSONparse(store[TheRef].metadata[ACL_POLICY_METADATA_KEY]) =
           Parsed(AsValue(setCalls["s1"].policy))

\* C10: getPolicy never raises on policy data. Whatever the reserved metadata
\* field holds (nothing, the empty string, text that is not JSON, JSON),
\* getPolicy returns; it returns null when the field is absent or empty or
\* does not parse.
C10_GetPolicyNeverRaises ==
    [][\A g \in Readers :
          ReadAnswered(g)
              => LET obj == store[getCalls[g].ref]
                     present == /\ obj.exists
                                /\ ACL_POLICY_METADATA_KEY \in DOMAIN obj.metadata
                 IN /\ getCalls'[g].pc = "done"
                    /\ getCalls'[g].result.kind = "return"
                    /\ (\/ ~present
                        \/ obj.metadata[ACL_POLICY_METADATA_KEY] = <<>>
                        \/ ~JSONparse(obj.metadata[ACL_POLICY_METADATA_KEY]).ok)
                           => getCalls'[g].result.value = JsNull]_vars

C10_Witness ==
    \E g \in Readers :
        /\ getCalls[g].pc = "done"
        /\ getCalls[g].result = [kind |-> "return", value |-> JsNull]
        /\ envOps = 0 /\ faults = 0
        /\ \A c \in Calls : setCalls[c].pc = "idle"
        /\ ACL_POLICY_METADATA_KEY \in DOMAIN store[TheRef].metadata
        /\ store[TheRef].metadata[ACL_POLICY_METADATA_KEY] # <<>>
        /\ ~JSONparse(store[TheRef].metadata[ACL_POLICY_METADATA_KEY]).ok


(***************************************************************************)
(* Claims about the stream adapter (SpecStream).                           *)
(***************************************************************************)
Payload == Concat(body.chunks)

RECURSIVE DataOf(_)
\* The bytes of the 'data' events of a sequence of events, in order.
DataOf(events) ==
    IF events = <<>> THEN <<>>
    ELSE (IF Head(events).type = "data" THEN Head(events).chunk ELSE <<>>)
         \o DataOf(Tail(events))

Emitted == DataOf(consumer.out)
Pulled == Concat(SubSeq(body.chunks, 1, body.pos))
Held == Concat(rs.chunksArr) \o Concat(rs.buffer)

\* C11 (stream fidelity): whatever the body's shape, at the 'end' event the
\* emitted chunks concatenate to the object's bytes, and while the stream is
\* being filled and read every chunk taken from the backend is either emitted
\* or still held for the reader, in order: none dropped, duplicated or re-ordered.
C11_StreamFidelity ==
    /\ rs.endEmitted => Emitted = Payload
    /\ (rs.pc \in {"buffering", "returned"} /\ ~rs.destroyed) => Emitted \o Held = Pulled

\* The last event only may be 'end' or 'error'.
TerminalLast(out) == \A i \in 1..Len(out) : i < Len(out) => out[i].type = "data"

\* C12 (stream termination): a read of the backend that fails while the adapted
\* stream is open adds exactly one 'error' event for its reader, and nothing is
\* emitted after an 'end' or an 'error'.
C12_StreamTermination ==
    /\ [](TerminalLast(consumer.out))
    /\ [][(body'.failed /\ ~body.failed /\ rs.created /\ ~rs.destroyed)
            => consumer'.out = Append(consumer.out, ErrorEvent("BackendReadError"))]_vars

\* C13 (backpressure): with an async-iterable or a pull-reader body the stream
\* never holds more chunks ahead of its reader than its high-water mark.
C13_Backpressure ==
    (rs.created /\ branchOf(body.caps) \in {"asyncIterable", "reader"})
        => Len(rs.buffer) <= HighWaterMark

\* C14 (cancellation): once the reader has destroyed the stream, at most the read
\* already under way is served by the backend, and when nothing more can happen
\* the backend body has been released.
C14_Cancellation ==
    consumer.aborted =>
        /\ body.pos <= consumer.posAtAbort + 1
        /\ (~ENABLED NextStream) => body.released

(***************************************************************************)
(* Claims about downloadObject (SpecDownload).                             *)
(***************************************************************************)
\* C15 (failure before header commit): when the metadata HEAD, the policy read or
\* the opening of the byte stream has failed, downloadObject returns to its caller
\* having sent exactly one response, with status 500.
C15_FailureBeforeCommit ==
    (dl.failure # "none" /\ dl.pc \in {"piping", "done"})
        => (dl.returned /\ res.responses = 1 /\ res.status = 500)

\* C16 (failure after header commit): a response is started at most once, and when
\* the stream has failed after the headers went out and the server has nothing
\* left to do, the response has been ended or its connection closed.
C16_FailureAfterCommit ==
    /\ res.responses <= 1
    /\ (dl.lateError /\ ~ENABLED ServerNext) => (res.ended \/ res.closed)

(***************************************************************************)
(* Claims about the path operations (SpecPath).                            *)
(***************************************************************************)
PathOpDone(op) == pathOp.pc = "done" /\ pathOp.op = op
HasReturned(r, v) == r.kind = "return" /\ r.value = v
HasThrown(r, e) == r.kind = "throw" /\ r.error = e
DirConfigured == env.PRIVATE_OBJECT_DIR # Unset
BucketConfigured == env.R2_BUCKET_NAME # Unset

\* C17 (uniform not-found): with the private directory configured, getObjectEntityFile
\* fails with ObjectNotFoundError, and with no other error, for a path without the
\* prefix "/objects/", for the prefix with no entity id after it, and for an object
\* the backend does not hold; it returns a reference only after a HEAD on that
\* reference, which the backend holds.
C17_UniformNotFound ==
    (PathOpDone("getObjectEntityFile") /\ DirConfigured) =>
        LET objectPath == pathOp.input
            noPrefix == ~startsWith(objectPath, EntityPrefix)
            noEntityId == objectPath = EntityPrefix
            absent == pathOp.heads # <<>> /\ ~ObjectAt(pathOp.heads[1]).exists
        IN /\ (noPrefix \/ noEntityId \/ absent)
                => HasThrown(pathOp.result, "ObjectNotFoundError")
           /\ pathOp.result.kind = "throw" => pathOp.result.error = "ObjectNotFoundError"
           /\ pathOp.result.kind = "return"
                => (pathOp.heads = <<pathOp.result.value>> /\ ObjectAt(pathOp.result.value).exists)

\* An https URL of the backend's own host.
isBackendUrl(rawPath) == Len(rawPath) >= 2 /\ rawPath[1] = "https://" /\ rawPath[2] = R2Host

\* C18 (normalizePath): with the private directory configured, a backend URL whose
\* path lies inside the private directory becomes "/objects/" followed by the rest
\* of the path, and every other input, absolute or not, is returned unchanged.
C18_NormalizePath ==
    (PathOpDone("normalizeObjectEntityPath") /\ DirConfigured) =>
        LET rawPath == pathOp.input
            root == withSlash(env.PRIVATE_OBJECT_DIR)
        IN IF isBackendUrl(rawPath) /\ startsWith(pathname(rawPath), root)
           THEN HasReturned(pathOp.result, EntityPrefix \o slice(pathname(rawPath), Len(root)))
           ELSE HasReturned(pathOp.result, rawPath)

\* C19 (applyPolicy on an unmanageable path): when the normalized path does not carry
\* the prefix "/objects/", trySetObjectEntityAclPolicy returns it unchanged with no
\* error, no HEAD and no setObjectAclPolicy; otherwise a call that returns has
\* resolved the entity, written the policy and returns the normalized path.
C19_UnmanageablePath ==
    (pathOp.op = "trySetObjectEntityAclPolicy" /\ pathOp.normalized.kind = "return") =>
        IF ~startsWith(pathOp.normalized.value, EntityPrefix)
        THEN /\ pathOp.pc = "done"
             /\ HasReturned(pathOp.result, pathOp.normalized.value)
             /\ pathOp.heads = <<>>
             /\ setCalls["s1"].pc = "idle"
        ELSE (pathOp.pc = "done" /\ pathOp.result.kind = "return")
                => /\ pathOp.result.value = pathOp.normalized.value
                   /\ pathOp.heads # <<>>
                   /\ HasReturned(setCalls["s1"].result, TRUE)

\* C20 (parseObjectPath on non-empty paths): a path without a leading "/" gives the
\* default bucket and the whole path as key; a path with a leading "/" and exactly
\* one non-empty segment gives the default bucket and that segment; with two or
\* more non-empty segments it gives the first segment as bucket and the others,
\* joined with "/", as key.
C20_ParseNonEmptyPaths ==
    /\ (PathOpDone("parseObjectPath") /\ pathOp.input # <<>>) =>
        LET path == pathOp.input
            segments == SelectSeq(split(path), nonEmpty)
        IN /\ (~startsWith(path, Slash) /\ BucketConfigured)
                => HasReturned(pathOp.result, Target(env.R2_BUCKET_NAME, path))
           /\ (startsWith(path, Slash) /\ Len(segments) = 1 /\ BucketConfigured)
                => HasReturned(pathOp.result, Target(env.R2_BUCKET_NAME, segments[1]))
           /\ (startsWith(path, Slash) /\ Len(segments) >= 2)
                => HasReturned(pathOp.result, Target(segments[1], join(Tail(segments))))
    /\ parseObjectPath(<<"foo">>, DefaultEnv) = Return(Target(<<"defb">>, <<"foo">>))
    /\ parseObjectPath(<<"/", "b", "/", "k1", "/", "k2">>, DefaultEnv)
            = Return(Target(<<"b">>, <<"k1", "/", "k2">>))

\* "/b//e1" has been parsed: bucket b, key e1.
C20_Witness ==
    /\ PathOpDone("parseObjectPath")
    /\ pathOp.input = <<"/", "b", "/", "/", "e1">>
    /\ HasReturned(pathOp.result, Target(<<"b">>, <<"e1">>))

\* The path has no piece between its separators (it may be empty).
OnlySeparators(path) == \A i \in 1..Len(path) : path[i] = "/"

\* C21: with a default bucket configured, parseObjectPath fails with the invalid-path error on the empty path
\* and on every path made only of separators, and it never returns a target
\* whose object name is empty.
C21_RejectsEmptyPaths ==
    (PathOpDone("parseObjectPath") /\ BucketConfigured) =>
        /\ OnlySeparators(pathOp.input) => HasThrown(pathOp.result, "Error: Invalid path")
        /\ pathOp.result.kind = "return" => pathOp.result.value.objectName # <<>>

\* C22: with no default bucket configured, parseObjectPath fails with the
\* configuration error on every path, the paths that name their own bucket
\* included.
C22_MissingDefaultBucket ==
    (PathOpDone("parseObjectPath") /\ ~BucketConfigured) =>
        HasThrown(pathOp.result, "Error: R2_BUCKET_NAME not set")

\* The calls of getObjectEntityUploadURL and of signObjectURL that returned.
UploadReturned == signOp.op = "getObjectEntityUploadURL" /\ signOp.result.kind = "return"
SignReturned == signOp.op = "signObjectURL" /\ signOp.result.kind = "return"

\* The object name under the private directory's own name for an identifier.
UploadKey(e, objectId) ==
    join(Tail(SelectSeq(split(e.PRIVATE_OBJECT_DIR), nonEmpty)))
        \o <<"/", "uploads", "/", objectId>>

\* The URLs getObjectEntityUploadURL has returned.
Uploaded == {i \in 1..Len(issued) : issued[i].op = "getObjectEntityUploadURL"}

\* C23: every URL getObjectEntityUploadURL returns is signed for PUT, for
\* the private directory's bucket and the key <directory>/uploads/<id> of the
\* identifier just generated, and for 900 seconds; no two URLs it has
\* returned in a behaviour are for the same bucket and key; the call sends
\* nothing to the backend.
C23_UploadCapability ==
    /\ UploadReturned =>
           /\ signOp.result.value.command =
                  Command("PUT", split(env.PRIVATE_OBJECT_DIR)[2],
                          UploadKey(env, signOp.objectId))
           /\ signOp.result.value.expires = 900
           /\ issued[Len(issued)] =
                  Issue("getObjectEntityUploadURL", signOp.result.value)
           /\ signOp.sent = <<>>
    /\ \A i, j \in Uploaded :
           i # j => <<issued[i].url.command.Bucket, issued[i].url.command.Key>> #
                        <<issued[j].url.command.Bucket, issued[j].url.command.Key>>

\* getObjectEntityUploadURL has returned its second URL.
C23_Witness ==
    /\ UploadReturned
    /\ Uploaded = {1, 2}

\* The commands a request to the backend can carry.
Requests ==
    {Command(method, bucketName, objectName) :
         method \in MethodInputs, bucketName \in {<<"b">>, <<"defb">>},
         objectName \in {<<"e1">>, <<"e2">>}}

\* C24: a URL signObjectURL returns is for a method among GET, PUT, DELETE
\* and HEAD, the backend accepts with it only the method, bucket and key of
\* the call and only before ttlSec seconds have passed since the call; a call
\* with any other method throws the unsupported-method error and returns no
\* URL.
C24_SignedUrlScope ==
    signOp.op = "signObjectURL" =>
        /\ signOp.request.method \in {"GET", "PUT", "DELETE", "HEAD"} =>
               /\ signOp.result.kind = "return"
               /\ issued[Len(issued)] = Issue("signObjectURL", signOp.result.value)
               /\ accepts(signOp.result.value, signOp.request, signOp.at)
               /\ \A command \in Requests, t \in Instants :
                      accepts(signOp.result.value, command, t) =>
                          /\ command = signOp.request
                          /\ t < signOp.at + signOp.ttlSec
        /\ signOp.request.method \notin {"GET", "PUT", "DELETE", "HEAD"} =>
               /\ HasThrown(signOp.result, "Error: Unsupported method")
               /\ \A i \in 1..Len(issued) :
                      issued[i].url.command.method # signOp.request.method

\* A URL signed for one second has been returned and the second has passed.
C24_Witness ==
    /\ SignReturned
    /\ signOp.ttlSec = 1
    /\ clock >= signOp.at + 1

\* A step of setObjectAclPolicy call c in which its backend call was answered.
SetAnswered(c) ==
    /\ setCalls[c].pc \in {"getMetadata", "head", "copy"}
    /\ setCalls'[c].pc # setCalls[c].pc

\* C25: when a backend call of getObjectAclPolicy or of setObjectAclPolicy
\* fails with something other than not-found, the operation throws that
\* failure to its caller; it does not return a null policy or go on.
C25_BackendErrorPropagation ==
    [][/\ \A g \in Readers :
              (ReadAnswered(g) /\ faults' # faults) =>
                  HasThrown(getCalls'[g].result, "BackendError")
       /\ \A c \in Calls :
              (SetAnswered(c) /\ faults' # faults) =>
                  /\ setCalls'[c].pc = "done"
                  /\ HasThrown(setCalls'[c].result, "BackendError")]_vars

\* The groups of the first k rules of the policy of the evaluated call.
RuleGroups(k) ==
    [i \in 1..k |-> authCall.policy.aclRules[i].group]

\* Rule i of the policy of the evaluated call allows the request.
RuleAllows(i) ==
    /\ <<authCall.policy.aclRules[i].group.id, authCall.userId>> \in membership
    /\ isPermissionAllowed(authCall.requested, authCall.policy.aclRules[i].permission)

\* The call is decided before the rules: public READ, no user, or the owner.
DecidedEarly ==
    \/ authCall.policy.visibility = "public" /\ authCall.requested = READ
    \/ Falsy(authCall.userId)
    \/ authCall.policy.owner = authCall.userId

StoredPublic ==
    LET metadata == store["r1"].metadata
    IN /\ ACL_POLICY_METADATA_KEY \in DOMAIN metadata
       /\ JSONparse(metadata[ACL_POLICY_METADATA_KEY]).ok
       /\ JSONparse(metadata[ACL_POLICY_METADATA_KEY]).value.kind = "policy"
       /\ JSONparse(metadata[ACL_POLICY_METADATA_KEY]).value.visibility = "public"

\* downloadObject has set its headers (and has not replaced them by a 500).
HeadersSet == dl.pc \notin {"off", "start", "policy"} /\ res.status # 500

\* C27: once downloadObject has set its headers, and the backend answered
\* the policy read, Cache-Control is public when the stored policy exists and
\* is public and private otherwise; Content-Type and Content-Length are those
\* of the call's own HEAD; no byte of the body is written before the headers
\* are set.
C27_DownloadHeaders ==
    /\ (HeadersSet /\ dl.policyRead = "answered") =>
           res.cacheVisibility = IF StoredPublic THEN "public" ELSE "private"
    /\ HeadersSet =>
           /\ res.cacheVisibility \in {"public", "private"}
           /\ res.contentType = IF store["r1"].contentType \in {Undefined, ""}
                                THEN "application/octet-stream"
                                ELSE store["r1"].contentType
           /\ res.contentLength =
                  CASE store["r1"].body = "" -> <<"0">>
                    [] store["r1"].body = "bytes1bytes2" -> <<"1", "2">>
                    [] OTHER -> <<"6">>
    /\ res.body # <<>> => (HeadersSet /\ res.status = 200)

\* Bytes of an object with a public policy have been written.
C27_Witness ==
    /\ res.body # <<>>
    /\ StoredPublic
    /\ dl.policyRead = "answered"
    /\ res.cacheVisibility = "public"

\* The metadata of the object r1 hold a policy: the reserved field is there
\* and parses to a policy object.
StoredPolicyReadable ==
    LET metadata == store["r1"].metadata
    IN /\ store["r1"].exists
       /\ ACL_POLICY_METADATA_KEY \in DOMAIN metadata
       /\ JSONparse(metadata[ACL_POLICY_METADATA_KEY]).ok
       /\ JSONparse(metadata[ACL_POLICY_METADATA_KEY]).value.kind = "policy"

\* C28: canAccessObject returns false, for every user and for READ and WRITE
\* alike, when the object has no stored policy or the read of its metadata
\* failed; it returns true only after a policy was read.
C28_FailClosed ==
    authCall.done =>
        /\ (~StoredPolicyReadable \/ faults > 0) => HasReturned(authCall.result, FALSE)
        /\ HasReturned(authCall.result, TRUE) => (StoredPolicyReadable /\ faults = 0)

\* The stored policy names u2 as its owner, the read of the metadata failed,
\* and u2 was refused.
C28_Witness ==
    /\ authCall.done
    /\ faults > 0
    /\ StoredPolicyReadable
    /\ authCall.userId = "u2"
    /\ JSONparse(store["r1"].metadata[ACL_POLICY_METADATA_KEY]).value.owner = "u2"
    /\ HasReturned(authCall.result, FALSE)

\* C29: the COPY of setObjectAclPolicy writes the custom metadata of the
\* call's latest read, the second HEAD, with only the reserved key replaced:
\* a custom key another writer changed before that HEAD has the writer's
\* value after the COPY.
C29_LatestReadWritten ==
    [][\A c \in Calls :
          (CopyAnswered(c) /\ setCalls'[c].result = Return(TRUE))
              => LET latest == setCalls[c].head.Metadata
                     after == store'[setCalls[c].ref].metadata
                 IN /\ DOMAIN after = DOMAIN latest \cup {ACL_POLICY_METADATA_KEY}
                    /\ \A k \in DOMAIN latest \ {ACL_POLICY_METADATA_KEY} :
                           after[k] = latest[k]
                    /\ after[ACL_POLICY_METADATA_KEY] =
                           JSONstringify(setCalls[c].policy)]_vars

\* The bucket and the directory prefix of the private directory /<bucket>/<dir>.
RootBucket == SelectSeq(split(env.PRIVATE_OBJECT_DIR), nonEmpty)[1]
RootPrefix == join(Tail(SelectSeq(split(env.PRIVATE_OBJECT_DIR), nonEmpty))) \o Slash

\* C30: with the private directory configured as /<bucket>/<dir>, every object
\* getObjectEntityFile or trySetObjectEntityAclPolicy addresses, and every
\* reference returned, is in the private directory's bucket and has a key
\* that starts with <dir>/, whatever the entity id.
C30_PrivateRootConfinement ==
    (pathOp.op \in {"getObjectEntityFile", "trySetObjectEntityAclPolicy"} /\ DirConfigured) =>
        \A i \in 1..Len(pathOp.heads) :
            /\ pathOp.heads[i].bucketName = RootBucket
            /\ startsWith(pathOp.heads[i].objectName, RootPrefix)

\* The i-th URL issued is an upload URL for the identifier, and the backend
\* holds the object uploaded with it.
UploadedAs(objectId, i) ==
    /\ i \in Uploaded
    /\ issued[i].url.command.Key # <<>>
    /\ issued[i].url.command.Key[Len(issued[i].url.command.Key)] = objectId
    /\ location = Target(issued[i].url.command.Bucket, issued[i].url.command.Key)
    /\ store["r1"].exists

C31_WitnessUrl ==
    /\ \E i \in 1..Len(issued) : UploadedAs("id2", i)
    /\ PathOpDone("normalizeObjectEntityPath")
    /\ HasReturned(pathOp.result, <<"/", "objects", "/", "uploads", "/", "id2">>)

ErrorHandlers == Len(SelectSeq(app.stack, LAMBDA m : m = "errorHandler"))

\* C32: whatever the invocations of the handler in one process, those that
\* arrive while initializeApp awaits registerRoutes included, registerRoutes
\* is called at most once and at most one error handler is installed.
C32_SingleInitialisation ==
    /\ app.registerRoutesCalls <= 1
    /\ ErrorHandlers <= 1

\* The steps in which setObjectAclPolicy's COPY is answered and in which
\* uploadFile runs.
CopyStep == setCalls["s1"].pc = "copy" /\ setCalls'["s1"].pc = "done"
UploadStep == pathOp.pc = "idle" /\ pathOp'.op = "uploadFile"

\* C33: no step of getObjectAclPolicy, canAccessObject, getObjectEntityFile,
\* searchPublicObject, downloadObject or getObjectEntityUploadURL changes
\* the backend or sends a PUT: the only steps that may change an object are
\* the COPY of setObjectAclPolicy, which keeps the object's existence and
\* bytes, and uploadFile, which sends at most one PutObjectCommand and
\* changes nothing but the object at that command's bucket and key.
C33_ReadOnlyOperations ==
    [][/\ (~CopyStep /\ ~UploadStep)
              => (store' = store /\ location' = location /\ pathOp'.puts = pathOp.puts)
       /\ CopyStep
              => /\ location' = location
                 /\ pathOp'.puts = pathOp.puts
                 /\ \A ref \in Refs : /\ store'[ref].exists = store[ref].exists
                                      /\ store'[ref].body = store[ref].body
       /\ UploadStep
              => /\ location' = location
                 /\ Len(pathOp'.puts) <= 1
                 /\ store' # store
                        => /\ Len(pathOp'.puts) = 1
                           /\ Target(pathOp'.puts[1].Bucket, pathOp'.puts[1].Key) = location
                           /\ store' = [store EXCEPT !["r1"] = PutObject(pathOp'.puts[1])]
      ]_<<store, location, pathOp.puts>>

\* A policy has been read, a policy has been written to an object that
\* holds bytes, and a file has been uploaded over it.
C33_Witness ==
    /\ getCalls["g1"].pc = "done"
    /\ setCalls["s1"].pc = "done"
    /\ setCalls["s1"].result.kind = "return"
    /\ PathOpDone("uploadFile")
    /\ pathOp.puts # <<>>
    /\ store["r1"] = PutObject(pathOp.puts[1])

=============================================================================
